---- MODULE Spec2Model ----
(***************************************************************************)
(* Model of Manga_Download_Processor.py: the processing pipeline           *)
(* (process_directory, process_individual_files, process_cbz_file,         *)
(* convert_to_webp, move_to_library, record_processing_history) and the    *)
(* undo journal (undo_processing_run).                                     *)
(*                                                                         *)
(* Paths are sequences of path components.  <<>> is the directory that     *)
(* holds the download directory D; the library is kept in L.               *)
(***************************************************************************)
EXTENDS Integers, Sequences, FiniteSets, TLC

(***************************************************************************)
(* Bounds of the model.                                                    *)
(***************************************************************************)
MaxDownloads == 2
MaxRuns == 2
MaxUndos == 2
MaxDbFailures == 1
MaxEntries == 3

(***************************************************************************)
(* Inputs: file names that arrive in the download directory, and sizes.    *)
(***************************************************************************)
FileNames == {"S c1.cbz", "S c1 (F).cbz"}
SubFolders == {"X"}
OrigSizes == {2000}
NewSizes == {2040, 2041}

\* a nullable column or an optional value: <<>> is NULL/None, <<v>> is v
Null == <<>>
Some(v) == <<v>>
\* result of convert_to_webp: None, or a new archive of the given size
NoArchive == [ok |-> FALSE, size |-> 0]
ConvResults == {NoArchive} \cup {[ok |-> TRUE, size |-> n] : n \in NewSizes}
DbOutcomes == {"ok", "write_fails", "connect_fails"}

VARIABLES
    fs,             \* the file system: [files: path -> content, dirs: set of paths]
    history,        \* table processing_history, a sequence of rows (row id = index)
    run_id,         \* number of the current (or last) processing run
    pc,             \* position of process_directory: "idle", "walk" or "files"
    walk,           \* directories os.walk has still to yield
    cur,            \* directory being processed (root of the loop body)
    todo,           \* cbz_files of cur not yet handled
    success,        \* process_individual_files.success
    processed,      \* process_individual_files.processed_files
    root_processed, \* process_directory.root_processed_files
    downloads,      \* number of files that have arrived so far
    undos,          \* number of undo invocations so far
    dbFailures,     \* number of failed journal writes so far
    last,           \* observation of the last call of process_cbz_file
    placed,         \* observation: placements made by the current run
    reported,       \* observation: files the current run reported as processed
    undone,         \* observation: the run the last step has undone, else 0
    \* convert_to_webp and the choice of process_cbz_file, for one archive
    cv_pc,          \* "off", "start", "pool", "verified" or "done"
    archive,        \* entry names of the source archive (zip_ref.namelist())
    archive_size,   \* os.path.getsize of the source archive
    disk,           \* files of the temporary directory: name -> bytes
    running,        \* submitted images whose convert_image has not returned
    completed,      \* futures that have completed and are not yet collected
    newzip,         \* entries written to the new archive, in order
    failed,         \* failed_conversions
    cv_result,      \* what convert_to_webp returns
    file_to_move,   \* process_cbz_file.file_to_move: "converted" or "original"
    \* the classifier (match_best_pattern) and its memories
    series_patterns,        \* table series_patterns: rows [series_name, pattern_name, is_manual]
    stored_pattern_choice,  \* _stored_pattern_choice: None or [pattern_name, series_prefix]
    stored_manual_pattern,  \* _stored_manual_pattern: None or [series_prefix, chapter, volume]
    stored_skip_series,     \* _stored_skip_series: None or the series prefix to skip
    stored_format_types,    \* _stored_format_types: series_name -> fingerprint
    auto_mode,              \* args.auto of the session
    cls,                    \* observation of the last call of match_best_pattern
    declared,               \* observation: series declared "skip all" in this session
    calls,                  \* number of files classified in this session
    sessions,               \* number of sessions (program runs) so far
    \* the dispatch of folders to the processing functions (process_directory)
    can_process_rar,   \* global can_process_rar: is the external extractor installed
    process_mode,      \* args.mode: "auto", "standard" or "bulk"
    dl_tree,           \* folder of the download tree -> names of its files
    dl_pc,             \* "scan", "files" (process_individual_files), "bulk" (extracted files)
    dl_walk,           \* folders os.walk has not yielded yet
    dl_root,           \* the folder being processed
    dl_todo,           \* files of the running loop not reached yet
    dl_success,        \* local `success` of the running processing function
    dl_handed,         \* observation: <<folder, file>> passed to match_best_pattern
    dl_outcome,        \* observation: <<folder, file>> -> outcome shown for the file
    dl_moved,          \* folders moved to !Finished
    \* the name a file gets in the library (move_to_library)
    nm_source,         \* basename of source_file, the temporary file to place
    nm_match,          \* series, volume, chapter and one-shot flag of the call
    nm_file_name,      \* file_name composed by the call, None before it
    \* the scorer (score_match)
    current_year,      \* date.today().year, read by validate_year_field
    sc_last,           \* observation: the last call of score_match and its score
    sc_prev            \* observation: the call before it

procVars == <<fs, history, run_id, pc, walk, cur, todo, success, processed,
              root_processed, downloads, undos, dbFailures, last, placed, reported,
              undone>>
convVars == <<cv_pc, archive, archive_size, disk, running, completed, newzip,
              failed, cv_result, file_to_move>>
clsVars == <<series_patterns, stored_pattern_choice, stored_manual_pattern,
             stored_skip_series, stored_format_types, auto_mode, cls, declared,
             calls, sessions>>
dispVars == <<can_process_rar, process_mode, dl_tree, dl_pc, dl_walk, dl_root,
              dl_todo, dl_success, dl_handed, dl_outcome, dl_moved>>
nameVars == <<nm_source, nm_match, nm_file_name>>
scoreVars == <<current_year, sc_last, sc_prev>>
vars == <<procVars, convVars, clsVars, dispVars, nameVars, scoreVars>>

(***************************************************************************)
(* Paths and the file system.                                              *)
(***************************************************************************)
download_directory == <<"D">>
library_path == <<"L">>
finished_dir == <<"D", "!Finished">>

Dirname(p) == SubSeq(p, 1, Len(p) - 1)
Basename(p) == p[Len(p)]
Join(d, n) == Append(d, n)
IsUnder(p, d) == Len(p) >= Len(d) /\ SubSeq(p, 1, Len(d)) = d
Rebase(p, d, e) == e \o SubSeq(p, Len(d) + 1, Len(p))

IsFile(F, p) == p \in DOMAIN F.files
IsDir(F, p) == p = <<>> \/ p \in F.dirs
Exists(F, p) == IsFile(F, p) \/ IsDir(F, p)
ListFiles(F, d) == {Basename(p) : p \in {q \in DOMAIN F.files : Dirname(q) = d}}
ListDirs(F, d) == {p \in F.dirs : Len(p) > 0 /\ Dirname(p) = d}

\* open(p, 'w') / shutil.copy2(src, p): p holds content c afterwards
WriteFile(F, p, c) ==
    [F EXCEPT !.files = [q \in DOMAIN F.files \cup {p} |->
                            IF q = p THEN c ELSE F.files[q]]]
\* os.remove(p)
RemoveFile(F, p) ==
    [F EXCEPT !.files = [q \in DOMAIN F.files \ {p} |-> F.files[q]]]
\* os.makedirs(p, exist_ok=True)
MakeDirs(F, p) ==
    [F EXCEPT !.dirs = @ \cup {SubSeq(p, 1, k) : k \in 1..Len(p)}]
\* os.rename(d, e) of a directory tree
RenameTree(F, d, e) ==
    LET moved == {p \in DOMAIN F.files : IsUnder(p, d)}
        kept == DOMAIN F.files \ moved
    IN [files |-> [q \in kept \cup {Rebase(p, d, e) : p \in moved} |->
                      IF q \in kept THEN F.files[q]
                      ELSE F.files[Rebase(q, e, d)]],
        dirs |-> {p \in F.dirs : ~IsUnder(p, d)}
                 \cup {Rebase(p, d, e) : p \in {q \in F.dirs : IsUnder(q, d)}}]
\* shutil.move(src, dst) of a directory: into dst when dst is a directory
MoveDirTarget(F, src, dst) ==
    IF IsDir(F, dst) THEN Join(dst, Basename(src)) ELSE dst
MoveDirRaises(F, src, dst) ==
    IsDir(F, dst) /\ Exists(F, Join(dst, Basename(src)))
MoveDir(F, src, dst) ==
    IF MoveDirRaises(F, src, dst) THEN F
    ELSE RenameTree(F, src, MoveDirTarget(F, src, dst))
\* a move that loses the file: the source is removed, nothing is written
RemoveSource(F, src, dst) == RemoveFile(F, src)
\* shutil.move(src, dst) of a file onto a file path: os.rename, replacing dst
MoveFile(F, src, dst) ==
    RemoveFile(WriteFile(F, dst, F.files[src]), src)

EmptyFiles == [p \in {} |-> 0]

(***************************************************************************)
(* Classification of a file name (result of match_best_pattern) and the    *)
(* names derived from it.                                                  *)
(***************************************************************************)
Classify(name) ==
    CASE name = "S c1.cbz" -> [Series |-> "S", Chapter |-> "1"]
      [] name = "S c1 (F).cbz" -> [Series |-> "S", Chapter |-> "1"]

\* os.path.splitext(name)[0]
Stem(name) ==
    CASE name = "S c1.cbz" -> "S c1"
      [] name = "S c1 (F).cbz" -> "S c1 (F)"

\* name of the file handed to move_to_library
TempName(name, webp) == IF webp THEN Stem(name) \o "_webp.cbz" ELSE name

\* re.search(r'\(F\d?\)', os.path.basename(source_file))
HasFixedMarker(tempname) ==
    tempname \in {"S c1 (F).cbz", "S c1 (F)_webp.cbz"}

NoCall == [called |-> FALSE, src |-> <<>>, marker |-> FALSE, destExisted |-> FALSE,
           dest |-> <<>>, wrote |-> FALSE, result |-> FALSE, row |-> FALSE,
           converted |-> FALSE, conv |-> NoArchive, original_size |-> 0,
           db |-> "ok", orig |-> [src |-> <<>>, webp |-> FALSE, size |-> 0],
           series_missing |-> FALSE]

InitProc ==
    /\ fs = [files |-> EmptyFiles, dirs |-> {download_directory, library_path}]
    /\ history = <<>>
    /\ run_id = 0
    /\ pc = "idle"
    /\ walk = <<>>
    /\ cur = <<>>
    /\ todo = {}
    /\ success = TRUE
    /\ processed = {}
    /\ root_processed = {}
    /\ downloads = 0
    /\ undos = 0
    /\ dbFailures = 0
    /\ last = NoCall
    /\ placed = <<>>
    /\ reported = {}
    /\ undone = 0

\* a new archive arrives in the download directory or in a sub-folder of it;
\* its bytes are identified by where and after which run it arrived
Download(dir, name, size) ==
    /\ pc = "idle"
    /\ downloads < MaxDownloads
    /\ ~Exists(fs, Join(dir, name))
    /\ fs' = WriteFile(MakeDirs(fs, dir), Join(dir, name),
                       [src |-> <<Join(dir, name), run_id>>, webp |-> FALSE, size |-> size])
    /\ downloads' = downloads + 1
    /\ UNCHANGED <<history, run_id, pc, walk, cur, todo, success, processed,
                   root_processed, undos, dbFailures, last, placed, reported>>
    /\ undone' = 0
    /\ UNCHANGED <<convVars, clsVars, dispVars, nameVars, scoreVars>>

(***************************************************************************)
(* process_cbz_file and what it calls.                                     *)
(***************************************************************************)
\* variant of UseConverted without the 2% tolerance
UseConvertedOnlySmaller(conv, original_size) ==
    conv.ok /\ conv.size < original_size

\* variant that places every archive the conversion produced
UseConvertedWheneverMade(conv, original_size) == conv.ok

\* process_cbz_file, lines 1925-1947: is the converted archive the file to move?
UseConverted(conv, original_size) ==
    IF ~conv.ok THEN FALSE
    ELSE IF conv.size < original_size THEN TRUE
    ELSE IF 100 * conv.size <= 102 * original_size THEN TRUE
    ELSE FALSE

\* move_to_library, lines 2030-2037: file_name
DestFileName(md) ==
    md.Series \o (IF md.Chapter # "" THEN " - Chapter " \o md.Chapter ELSE "") \o ".cbz"
\* f"{base}_{counter}{ext}"
Suffixed(md, counter) ==
    md.Series \o (IF md.Chapter # "" THEN " - Chapter " \o md.Chapter ELSE "")
      \o "_" \o ToString(counter) \o ".cbz"

\* move_to_library, lines 2066-2070: first dest_path that does not exist
RECURSIVE FreeDest(_, _, _, _)
FreeDest(F, series_path, md, counter) ==
    IF Exists(F, Join(series_path, Suffixed(md, counter)))
    THEN FreeDest(F, series_path, md, counter + 1)
    ELSE Join(series_path, Suffixed(md, counter))

\* variant of move_to_library that writes onto the destination in every case
move_to_library_overwriting(F, tempname, c, md) ==
    LET series_path == Join(library_path, md.Series)
        F1 == MakeDirs(F, series_path)
        dest_path == Join(series_path, DestFileName(md))
    IN [fs |-> WriteFile(F1, dest_path, c), dest |-> dest_path,
        raised |-> FALSE, wrote |-> TRUE]

\* move_to_library(source_file, library_path, series, volume, chapter):
\* source_file is the temporary file tempname holding content c.
\* The result tells the new file system, the destination and whether the
\* call raised (lines 2048-2050 move the source away and line 2075 copies it).
\* The only call (line 1968) passes no download_directory, so the parameter
\* is None and the "!Conflicts" branch of lines 2052-2064 is never taken.
move_to_library(F, tempname, c, md) ==
    LET series_path == Join(library_path, md.Series)
        F1 == MakeDirs(F, series_path)
        dest_path == Join(series_path, DestFileName(md))
    IN IF Exists(F1, dest_path)
       THEN IF HasFixedMarker(tempname)
            THEN [fs |-> WriteFile(RemoveFile(F1, dest_path), dest_path, c),
                  dest |-> dest_path, raised |-> TRUE, wrote |-> TRUE]
            ELSE LET d == FreeDest(F1, series_path, md, 1)
                 IN [fs |-> WriteFile(F1, d, c), dest |-> d,
                     raised |-> FALSE, wrote |-> TRUE]
       ELSE [fs |-> WriteFile(F1, dest_path, c), dest |-> dest_path,
             raised |-> FALSE, wrote |-> TRUE]

\* record_processing_history: the INSERT is committed at once; a failing
\* INSERT is logged and swallowed; a failing connect leaves conn unbound and
\* the finally clause raises.
HistoryRow(rid, source_path, dest_path, original_size, final_size) ==
    [run_id |-> rid, source_path |-> source_path, dest_path |-> dest_path,
     original_size |-> original_size, final_size |-> final_size,
     space_saved |-> IF original_size # 0 /\ final_size # Null /\ final_size # Some(0)
                     THEN Some(original_size - final_size[1]) ELSE Null,
     undone_at |-> Null]
record_processing_history(H, row, db) ==
    [history |-> IF db = "ok" THEN Append(H, row) ELSE H,
     raised |-> db = "connect_fails"]

\* process_cbz_file(filepath, work_dir, library_path, match_dict)
process_cbz_file(F, H, filepath, md, conv, db, rid) ==
    LET name == Basename(filepath)
        orig == F.files[filepath]
        original_size == orig.size
        converted == UseConverted(conv, original_size)
        c == IF converted
             THEN [src |-> orig.src, webp |-> TRUE, size |-> conv.size]
             ELSE orig
        tempname == TempName(name, converted)
        mv == move_to_library(F, tempname, c, md)
        final_size == IF IsFile(mv.fs, mv.dest)
                      THEN Some(mv.fs.files[mv.dest].size) ELSE Null
        rec == record_processing_history(H,
                   HistoryRow(rid, filepath, mv.dest, original_size, final_size), db)
        obs == [called |-> TRUE, src |-> filepath, marker |-> HasFixedMarker(tempname),
                destExisted |-> Exists(F, Join(Join(library_path, md.Series), DestFileName(md))),
                dest |-> mv.dest, wrote |-> mv.wrote, converted |-> converted,
                conv |-> conv, original_size |-> original_size, db |-> db,
                orig |-> orig, series_missing |-> FALSE]
    IN IF mv.raised
       THEN [fs |-> mv.fs, history |-> H,
             obs |-> obs @@ [result |-> FALSE, row |-> FALSE]]
       ELSE [fs |-> mv.fs, history |-> rec.history,
             obs |-> obs @@ [result |-> ~rec.raised, row |-> db = "ok"]]

(***************************************************************************)
(* process_directory, one step per directory and per file.                 *)
(***************************************************************************)
SpecialDirs == {"!Finished", "!temp_processing", "!temp_extract"}
\* any(special in root for special in [...])
IsSpecial(p) == \E i \in 1..Len(p) : p[i] \in SpecialDirs

Perms(S) == {s \in [1..Cardinality(S) -> S] : \A i, j \in 1..Cardinality(S) : s[i] = s[j] => i = j}

\* process_directory, lines 1350-1368
StartRun ==
    /\ pc = "idle"
    /\ run_id < MaxRuns
    /\ run_id' = run_id + 1
    /\ fs' = MakeDirs(fs, finished_dir)
    /\ walk' = <<download_directory>>
    /\ pc' = "walk"
    /\ root_processed' = {}
    /\ placed' = <<>>
    /\ reported' = {}
    /\ UNCHANGED <<history, cur, todo, success, processed, downloads, undos,
                   dbFailures, last>>
    /\ undone' = 0
    /\ UNCHANGED <<convVars, clsVars, dispVars, nameVars, scoreVars>>

\* os.walk yields the next directory (lines 1370-1378); sub-directories are
\* listed when their parent is reached, in the order the OS returns them.
\* Every directory below a special one is special too and is skipped, so
\* the walk does not keep them.
VisitDir ==
    /\ pc = "walk"
    /\ walk # <<>>
    /\ LET root == Head(walk)
       IN IF ~IsDir(fs, root)
          THEN /\ walk' = Tail(walk)
               /\ UNCHANGED <<pc, cur, todo, success, processed>>
          ELSE \E order \in Perms(IF IsSpecial(root) THEN {} ELSE ListDirs(fs, root)) :
               /\ walk' = order \o Tail(walk)
               /\ IF IsSpecial(root) \/ ListFiles(fs, root) = {}
                  THEN UNCHANGED <<pc, cur, todo, success, processed>>
                  ELSE /\ pc' = "files"
                       /\ cur' = root
                       /\ todo' = ListFiles(fs, root)
                       /\ success' = TRUE
                       /\ processed' = {}
    /\ last' = NoCall
    /\ UNCHANGED <<fs, history, run_id, root_processed, downloads, undos,
                   dbFailures, placed, reported>>
    /\ undone' = 0
    /\ UNCHANGED <<convVars, clsVars, dispVars, nameVars, scoreVars>>

\* an extraction with neither Series nor Title, as a pattern without a series
\* group gives it (chosen by the operator, or re-applied from a stored row,
\* lines 808-824)
NoSeries(name) == [Classify(name) EXCEPT !.Series = ""]

\* what match_best_pattern can return for a file of FileNames (line 1514):
\* its classification, an extraction without a series, or None when the
\* operator skips the file or its series
MatchResults(name) == {Null, Some(Classify(name)), Some(NoSeries(name))}

\* a variant without the test of lines 1524 and 1692
series_is_not_tested(match_dict) == TRUE

\* lines 1524 and 1692, negated: the match_dict names a series
could_determine_series(match_dict) == match_dict.Series # ""

\* process_individual_files, body of the loop over cbz_files (lines 1510-1572)
ProcessFile(name, match_result, conv, db) ==
    /\ pc = "files"
    /\ name \in todo
    /\ IF match_result = Null
       THEN \* lines 1515-1517: continue
            /\ last' = NoCall
            /\ UNCHANGED <<fs, history, placed, processed, reported, success,
                           dbFailures>>
       ELSE IF ~could_determine_series(match_result[1])
       THEN \* lines 1524-1526: 'Could not determine series', continue
            /\ last' = [NoCall EXCEPT !.series_missing = TRUE]
            /\ UNCHANGED <<fs, history, placed, processed, reported, success,
                           dbFailures>>
       ELSE /\ db # "ok" => dbFailures < MaxDbFailures
            /\ LET filepath == Join(cur, name)
                   r == process_cbz_file(fs, history, filepath, match_result[1],
                                         conv, db, run_id)
                   result == r.obs.result
                   moveIt == result /\ cur = download_directory /\ IsFile(r.fs, filepath)
               IN /\ fs' = IF moveIt
                           THEN MoveFile(r.fs, filepath, Join(finished_dir, name))
                           ELSE r.fs
                  /\ history' = r.history
                  /\ last' = r.obs
                  /\ placed' = IF r.obs.wrote
                               THEN Append(placed, [src |-> filepath, dest |-> r.obs.dest])
                               ELSE placed
                  /\ processed' = IF result THEN processed \cup {name} ELSE processed
                  /\ reported' = IF result THEN reported \cup {filepath} ELSE reported
                  /\ success' = (success /\ result)
            /\ dbFailures' = IF db = "ok" THEN dbFailures ELSE dbFailures + 1
    /\ todo' = todo \ {name}
    /\ UNCHANGED <<run_id, pc, walk, cur, root_processed, downloads, undos>>
    /\ undone' = 0
    /\ UNCHANGED <<convVars, clsVars, dispVars, nameVars, scoreVars>>

\* process_directory, lines 1399-1420: the folder is done
FinishFolder ==
    /\ pc = "files"
    /\ todo = {}
    /\ root_processed' = IF cur = download_directory
                         THEN root_processed \cup processed ELSE root_processed
    /\ fs' = IF cur # download_directory /\ success
             THEN MoveDir(fs, cur, Join(finished_dir, Basename(cur)))
             ELSE fs
    /\ pc' = "walk"
    /\ cur' = <<>>
    /\ success' = TRUE
    /\ processed' = {}
    /\ last' = NoCall
    /\ UNCHANGED <<history, run_id, walk, todo, downloads, undos, dbFailures,
                   placed, reported>>
    /\ undone' = 0
    /\ UNCHANGED <<convVars, clsVars, dispVars, nameVars, scoreVars>>

\* move root_processed_files that are still in place (lines 1422-1436)
RECURSIVE MoveLoose(_, _)
MoveLoose(F, names) ==
    IF names = {} THEN F
    ELSE LET n == CHOOSE x \in names : TRUE
             F1 == IF IsFile(F, Join(download_directory, n))
                   THEN MoveFile(F, Join(download_directory, n), Join(finished_dir, n))
                   ELSE F
         IN MoveLoose(F1, names \ {n})

\* process_directory, lines 1422-1472: the walk is over
EndRun ==
    /\ pc = "walk"
    /\ walk = <<>>
    /\ fs' = MoveLoose(MakeDirs(fs, finished_dir), root_processed)
    /\ pc' = "idle"
    /\ root_processed' = {}
    /\ placed' = <<>>
    /\ reported' = {}
    /\ last' = NoCall
    /\ UNCHANGED <<history, run_id, walk, cur, todo, success, processed,
                   downloads, undos, dbFailures>>
    /\ undone' = 0
    /\ UNCHANGED <<convVars, clsVars, dispVars, nameVars, scoreVars>>

\* the process is terminated between two steps of a run
Abort ==
    /\ pc # "idle"
    /\ pc' = "idle"
    /\ walk' = <<>>
    /\ todo' = {}
    /\ cur' = <<>>
    /\ success' = TRUE
    /\ processed' = {}
    /\ root_processed' = {}
    /\ placed' = <<>>
    /\ reported' = {}
    /\ last' = NoCall
    /\ UNCHANGED <<fs, history, run_id, downloads, undos, dbFailures>>
    /\ undone' = 0
    /\ UNCHANGED <<convVars, clsVars, dispVars, nameVars, scoreVars>>

(***************************************************************************)
(* undo_processing_run(run_id), lines 2623-2901.                           *)
(***************************************************************************)
\* SELECT id, source_path, dest_path FROM processing_history WHERE run_id = ?
RowIds(H, r) == {i \in 1..Len(H) : H[i].run_id = r}
SourceDirs(H, r) == {Dirname(H[i].source_path) : i \in RowIds(H, r)}
DownloadDirs(H, r) == {Dirname(d) : d \in SourceDirs(H, r)}
RecoveredDirName(r) == "!Recovered_" \o ToString(r)
\* sorted(download_dirs, key=len)[0]: any of the shortest
MainDownloadDirs(H, r) ==
    {d \in DownloadDirs(H, r) : \A e \in DownloadDirs(H, r) : Len(d) <= Len(e)}

\* variant of RemoveFromLibrary that deletes the rows of the run
RECURSIVE RemoveFilesOf(_, _, _, _)
RemoveFilesOf(F, H, r, i) ==
    IF i > Len(H) THEN F
    ELSE IF H[i].run_id = r /\ IsFile(F, H[i].dest_path)
    THEN RemoveFilesOf(RemoveFile(F, H[i].dest_path), H, r, i + 1)
    ELSE RemoveFilesOf(F, H, r, i + 1)
RemoveFromLibraryDeleting(F, H, r, i, now) ==
    [fs |-> RemoveFilesOf(F, H, r, i),
     history |-> SelectSeq(H, LAMBDA row : row.run_id # r)]

\* lines 2709-2725: remove the destination files and mark the rows
RECURSIVE RemoveFromLibrary(_, _, _, _, _)
RemoveFromLibrary(F, H, r, i, now) ==
    IF i > Len(H) THEN [fs |-> F, history |-> H]
    ELSE IF H[i].run_id = r /\ IsFile(F, H[i].dest_path)
    THEN RemoveFromLibrary(RemoveFile(F, H[i].dest_path),
                           [H EXCEPT ![i].undone_at = Some(now)], r, i + 1, now)
    ELSE RemoveFromLibrary(F, H, r, i + 1, now)

\* lines 2732-2740: os.rmdir of the series directories that are empty now
CleanSeriesDirs(F, H, r) ==
    LET series_dirs == {Dirname(H[i].dest_path) : i \in RowIds(H, r)}
        empty == {d \in series_dirs : /\ d \in F.dirs
                                      /\ ListFiles(F, d) = {}
                                      /\ ListDirs(F, d) = {}}
    IN [F EXCEPT !.dirs = @ \ empty]

\* lines 2748-2759: the folders found in the !Finished directories
PotentialFolders(F, H, r) ==
    UNION {{[name |-> Basename(p), path |-> p, parent |-> dd] :
               p \in {q \in F.dirs : Len(q) > 0 /\ Dirname(q) = Join(dd, "!Finished")}} :
           dd \in DownloadDirs(H, r)}

\* lines 2762-2798: restore whole folders; the result carries restored_folders
RECURSIVE RestoreFolders(_, _, _, _, _)
RestoreFolders(F, restored, todoDirs, pot, r) ==
    IF todoDirs = {} THEN [fs |-> F, restored |-> restored]
    ELSE LET source_dir == CHOOSE d \in todoDirs : TRUE
             cand == {f \in pot : f.name = Basename(source_dir)
                                  /\ f.parent = Dirname(source_dir)}
         IN IF Len(source_dir) = 0 \/ cand = {}
            THEN RestoreFolders(F, restored, todoDirs \ {source_dir}, pot, r)
            ELSE LET f == CHOOSE x \in cand : TRUE
                     target == IF Exists(F, source_dir)
                               THEN Join(Dirname(source_dir),
                                         Basename(source_dir) \o "_recovered_" \o ToString(r))
                               ELSE source_dir
                 IN IF ~IsDir(F, f.path) \/ MoveDirRaises(F, f.path, target)
                    THEN RestoreFolders(F, restored, todoDirs \ {source_dir}, pot, r)
                    ELSE RestoreFolders(MoveDir(MakeDirs(F, Dirname(source_dir)), f.path, target),
                                        restored \cup {source_dir},
                                        todoDirs \ {source_dir}, pot, r)

\* os.walk(finished_dir) until the first directory that holds filename:
\* every match no ancestor directory of which holds a match can be the first
WalkFinds(F, fd, filename) ==
    LET m == {p \in DOMAIN F.files : IsUnder(p, fd) /\ Len(p) > Len(fd)
                                     /\ Basename(p) = filename}
    IN {p \in m : \A q \in m : q = p \/ ~(IsUnder(Dirname(p), Dirname(q))
                                          /\ Dirname(p) # Dirname(q))}
\* lines 2824-2835 and 2841-2851: the file itself, else the first found by the walk
FindFinished(F, fd, filename) ==
    IF ~IsDir(F, fd) THEN {}
    ELSE IF IsFile(F, Join(fd, filename)) THEN {Join(fd, filename)}
    ELSE WalkFinds(F, fd, filename)
\* lines 2819-2854: candidates for finished_path
FinishedPaths(F, H, r, source_path) ==
    LET filename == Basename(source_path)
        source_dir == Dirname(source_path)
        first == IF IsDir(F, source_dir)
                 THEN FindFinished(F, Join(Dirname(source_dir), "!Finished"), filename)
                 ELSE {}
    IN IF first # {} THEN first
       ELSE UNION {FindFinished(F, Join(dd, "!Finished"), filename) :
                      dd \in DownloadDirs(H, r)}

\* lines 2805-2874: restore the files one by one, in row order; the result is
\* the set of file systems the loop can end in
RECURSIVE RestoreFiles(_, _, _, _, _, _)
RestoreFiles(F, H, r, i, restored, recovery_dir) ==
    IF i > Len(H) THEN {F}
    ELSE IF H[i].run_id # r \/ Dirname(H[i].source_path) \in restored
    THEN RestoreFiles(F, H, r, i + 1, restored, recovery_dir)
    ELSE LET source_path == H[i].source_path
             filename == Basename(source_path)
             source_dir == Dirname(source_path)
             found == FinishedPaths(F, H, r, source_path)
             dest_file == IF IsDir(F, source_dir) THEN Join(source_dir, filename)
                          ELSE Join(recovery_dir, filename)
         IN IF found = {}
            THEN RestoreFiles(F, H, r, i + 1, restored, recovery_dir)
            ELSE UNION {RestoreFiles(MoveFile(F, fp, dest_file), H, r, i + 1,
                                     restored, recovery_dir) : fp \in found}

\* variant of the undo that looks the files up one by one before it restores
\* the folders
UndoResultsFilesFirst(F, H, r, now) ==
    UNION {
      LET recovery_dir == Join(main, RecoveredDirName(r))
          F1 == MakeDirs(F, recovery_dir)
          rm == RemoveFromLibrary(F1, H, r, 1, now)
          F2 == CleanSeriesDirs(rm.fs, H, r)
      IN {[fs |-> RestoreFolders(F3, {}, SourceDirs(H, r),
                                 PotentialFolders(F3, H, r), r).fs,
           history |-> rm.history] :
             F3 \in RestoreFiles(F2, H, r, 1, {}, recovery_dir)}
      : main \in MainDownloadDirs(H, r)}

\* the outcomes of a confirmed undo of run r at time now
UndoResults(F, H, r, now) ==
    UNION {
      LET recovery_dir == Join(main, RecoveredDirName(r))
          F1 == MakeDirs(F, recovery_dir)
          rm == RemoveFromLibrary(F1, H, r, 1, now)
          F2 == CleanSeriesDirs(rm.fs, H, r)
          rf == RestoreFolders(F2, {}, SourceDirs(H, r), PotentialFolders(F2, H, r), r)
      IN {[fs |-> F3, history |-> rm.history] :
             F3 \in RestoreFiles(rf.fs, H, r, 1, rf.restored, recovery_dir)}
      : main \in MainDownloadDirs(H, r)}

\* undo_interactive / undo_processing_run: the operator picks a run that has
\* rows and confirms (any other answer returns before anything is changed)
UndoProcessingRun(r) ==
    /\ pc = "idle"
    /\ undos < MaxUndos
    /\ RowIds(history, r) # {}
    /\ undos' = undos + 1
    /\ \E out \in UndoResults(fs, history, r, undos + 1) :
          /\ fs' = out.fs
          /\ history' = out.history
    /\ UNCHANGED <<run_id, pc, walk, cur, todo, success, processed,
                   root_processed, downloads, dbFailures, last, placed, reported>>
    /\ undone' = r
    /\ UNCHANGED <<convVars, clsVars, dispVars, nameVars, scoreVars>>

DownloadDirsIn == {download_directory} \cup {Join(download_directory, x) : x \in SubFolders}

Next ==
    \/ \E dir \in DownloadDirsIn, name \in FileNames, size \in OrigSizes :
          Download(dir, name, size)
    \/ StartRun
    \/ VisitDir
    \/ \E name \in FileNames, conv \in ConvResults, db \in DbOutcomes :
          \E match_result \in MatchResults(name) :
              ProcessFile(name, match_result, conv, db)
    \/ FinishFolder
    \/ EndRun
    \/ Abort
    \/ \E r \in 1..MaxRuns : UndoProcessingRun(r)

\* the observation before any file has been classified in the session
NoClassification ==
    [file |-> "", auto |-> FALSE, result |-> Null, asked |-> <<>>,
     via |-> "none", memory |-> "none", resolve |-> FALSE]

\* the classifier at rest: an empty series_patterns table (init_database on a
\* new database) and the module globals of lines 121-123 and 1235
ClsOff ==
    /\ series_patterns = {}
    /\ stored_pattern_choice = Null
    /\ stored_manual_pattern = Null
    /\ stored_skip_series = Null
    /\ stored_format_types = <<>>
    /\ auto_mode = FALSE
    /\ cls = NoClassification
    /\ declared = {}
    /\ calls = 0
    /\ sessions = 0

ConvOff ==
    /\ cv_pc = "off"
    /\ archive = {}
    /\ archive_size = 0
    /\ disk = EmptyFiles
    /\ running = {}
    /\ completed = {}
    /\ newzip = <<>>
    /\ failed = {}
    /\ cv_result = NoArchive
    /\ file_to_move = "none"

\* no folder is being dispatched
DispOff ==
    /\ can_process_rar = TRUE
    /\ process_mode = "standard"
    /\ dl_tree = <<>>
    /\ dl_pc = "scan"
    /\ dl_walk = <<>>
    /\ dl_root = ""
    /\ dl_todo = {}
    /\ dl_success = TRUE
    /\ dl_handed = {}
    /\ dl_outcome = <<>>
    /\ dl_moved = {}

\* no file name is being composed
NameOff ==
    /\ nm_source = ""
    /\ nm_match = <<>>
    /\ nm_file_name = Null

\* no extraction has been scored
ScoreOff ==
    /\ current_year = 2026
    /\ sc_last = Null
    /\ sc_prev = Null

Init == InitProc /\ ConvOff /\ ClsOff /\ DispOff /\ NameOff /\ ScoreOff

Spec == Init /\ [][Next]_vars

(***************************************************************************)
(* process_directory with dry_run=True.  The positions of a dry run are    *)
(* "dry_walk" and "dry_files"; the run identifier of a dry run is never    *)
(* used, so run_id is left as it is.                                       *)
(***************************************************************************)
work_directory == <<"W">>
DryPositions == {"dry_walk", "dry_files"}

\* process_directory, lines 1350-1358 and 1363-1366: the directories made
\* before the walk
PrepareDirs(F, dry_run) ==
    IF dry_run THEN F
    ELSE MakeDirs(MakeDirs(MakeDirs(F, Join(work_directory, "temp_processing")),
                           Join(work_directory, "temp_extract")),
                  finished_dir)

\* variant of line 1410 that forgets the dry_run flag
folder_is_moved_in_dry_run(dry_run, root, process_result) ==
    root # download_directory /\ process_result

\* process_directory, line 1410
folder_is_moved(dry_run, root, process_result) ==
    ~dry_run /\ root # download_directory /\ process_result

\* process_directory, line 1422
loose_files_are_moved(dry_run, root_processed_files) ==
    ~dry_run /\ root_processed_files # {}

DryStartRun ==
    /\ pc = "idle"
    /\ fs' = PrepareDirs(fs, TRUE)
    /\ walk' = <<download_directory>>
    /\ pc' = "dry_walk"
    /\ root_processed' = {}
    /\ placed' = <<>>
    /\ reported' = {}
    /\ UNCHANGED <<history, run_id, cur, todo, success, processed, downloads, undos,
                   dbFailures, last>>
    /\ undone' = 0
    /\ UNCHANGED <<convVars, clsVars, dispVars, nameVars, scoreVars>>

\* process_directory, lines 1368-1397, as VisitDir
DryVisitDir ==
    /\ pc = "dry_walk"
    /\ walk # <<>>
    /\ LET root == Head(walk)
       IN IF ~IsDir(fs, root)
          THEN /\ walk' = Tail(walk)
               /\ UNCHANGED <<pc, cur, todo, success, processed>>
          ELSE \E order \in Perms(IF IsSpecial(root) THEN {} ELSE ListDirs(fs, root)) :
               /\ walk' = order \o Tail(walk)
               /\ IF IsSpecial(root) \/ ListFiles(fs, root) = {}
                  THEN UNCHANGED <<pc, cur, todo, success, processed>>
                  ELSE /\ pc' = "dry_files"
                       /\ cur' = root
                       /\ todo' = ListFiles(fs, root)
                       /\ success' = TRUE
                       /\ processed' = {}
    /\ last' = NoCall
    /\ UNCHANGED <<fs, history, run_id, root_processed, downloads, undos,
                   dbFailures, placed, reported>>
    /\ undone' = 0
    /\ UNCHANGED <<convVars, clsVars, dispVars, nameVars, scoreVars>>

\* process_individual_files, lines 1510-1547 with dry_run: the file is
\* classified, its destination is shown and it is counted as processed
DryProcessFile(name, match_result) ==
    /\ pc = "dry_files"
    /\ name \in todo
    /\ todo' = todo \ {name}
    /\ processed' = IF match_result = Null
                    THEN processed
                    ELSE IF ~could_determine_series(match_result[1])
                    THEN processed
                    ELSE processed \cup {name}
    /\ last' = NoCall
    /\ UNCHANGED <<fs, history, run_id, pc, walk, cur, success, root_processed,
                   downloads, undos, dbFailures, placed, reported>>
    /\ undone' = 0
    /\ UNCHANGED <<convVars, clsVars, dispVars, nameVars, scoreVars>>

\* process_directory, lines 1399-1420 with dry_run
DryFinishFolder ==
    /\ pc = "dry_files"
    /\ todo = {}
    /\ root_processed' = IF cur = download_directory
                         THEN root_processed \cup processed ELSE root_processed
    /\ fs' = IF folder_is_moved(TRUE, cur, success)
             THEN MoveDir(fs, cur, Join(finished_dir, Basename(cur)))
             ELSE fs
    /\ pc' = "dry_walk"
    /\ cur' = <<>>
    /\ success' = TRUE
    /\ processed' = {}
    /\ last' = NoCall
    /\ UNCHANGED <<history, run_id, walk, todo, downloads, undos, dbFailures,
                   placed, reported>>
    /\ undone' = 0
    /\ UNCHANGED <<convVars, clsVars, dispVars, nameVars, scoreVars>>

\* process_directory, lines 1422-1471 with dry_run
DryEndRun ==
    /\ pc = "dry_walk"
    /\ walk = <<>>
    /\ fs' = IF loose_files_are_moved(TRUE, root_processed)
             THEN MoveLoose(MakeDirs(fs, finished_dir), root_processed)
             ELSE fs
    /\ pc' = "idle"
    /\ root_processed' = {}
    /\ placed' = <<>>
    /\ reported' = {}
    /\ last' = NoCall
    /\ UNCHANGED <<history, run_id, walk, cur, todo, success, processed,
                   downloads, undos, dbFailures>>
    /\ undone' = 0
    /\ UNCHANGED <<convVars, clsVars, dispVars, nameVars, scoreVars>>

NextDryRun ==
    \/ Next
    \/ DryStartRun
    \/ DryVisitDir
    \/ \E name \in FileNames : \E match_result \in MatchResults(name) :
          DryProcessFile(name, match_result)
    \/ DryFinishFolder
    \/ DryEndRun

SpecDryRun == Init /\ [][NextDryRun]_vars

(***************************************************************************)
(* Runs and undos over a download tree with a nested folder: archives      *)
(* arrive in D/X and in D/A/B.  The conversion and the journal do not fail *)
(* here.                                                                   *)
(***************************************************************************)
NestedDirs == {Join(download_directory, "X"),
               Join(Join(download_directory, "A"), "B")}

NextNested ==
    \/ \E dir \in NestedDirs, name \in FileNames, size \in OrigSizes :
          Download(dir, name, size)
    \/ StartRun
    \/ VisitDir
    \/ \E name \in FileNames : \E match_result \in MatchResults(name) :
          ProcessFile(name, match_result, NoArchive, "ok")
    \/ FinishFolder
    \/ EndRun
    \/ \E r \in 1..MaxRuns : UndoProcessingRun(r)

SpecNested == Init /\ [][NextNested]_vars

(***************************************************************************)
(* The scorer: score_match and the checks it calls.  Scores are in tenths  *)
(* of a point; the regular expressions and string tests are tabulated for  *)
(* the match_dicts of ScoreFiles.                                          *)
(***************************************************************************)
\* file names handed to score_all_patterns
ScoreFiles ==
    {"One Piece - 12.cbz",
     "Series 012 (2032).cbz",
     "A- c1.cbz",
     "Beta 12 v3 (x).cbz",
     "Naruto ch 12.cbz",
     "Vol. 3 Ch. 12.cbz",
     "7 (2032).cbz",
     "A v3 ch 12.cbz"}

\* score_all_patterns, lines 882-887: the match_dict of every pattern of lines
\* 125-172 that matches the file name ("" is a group that is absent or did
\* not take part); parts is the length of the values of the groups
\* joined as in line 325
match_dicts(filename) ==
    CASE filename = "One Piece - 12.cbz" ->
        {[name |-> "One Piece -", Chapter |-> "12", filename |-> filename, pattern |-> "Chapter", key |-> "Title", Volume |-> "", Year |-> "", Extra |-> "", Source |-> "", Part |-> "", parts |-> 13]}
      [] filename = "Series 012 (2032).cbz" ->
        {[name |-> "Series 012", Chapter |-> "", filename |-> filename, pattern |-> "FullTitle_Year", key |-> "Series", Volume |-> "", Year |-> "2032", Extra |-> "", Source |-> "", Part |-> "", parts |-> 14],
         [name |-> "Series", Chapter |-> "012", filename |-> filename, pattern |-> "Complete_Series", key |-> "Series", Volume |-> "", Year |-> "2032", Extra |-> "", Source |-> "", Part |-> "", parts |-> 13],
         [name |-> "Series", Chapter |-> "012", filename |-> filename, pattern |-> "Complex_Series", key |-> "Series", Volume |-> "", Year |-> "2032", Extra |-> "", Source |-> "", Part |-> "", parts |-> 13],
         [name |-> "Series", Chapter |-> "012", filename |-> filename, pattern |-> "Complex_SeriesDecimal", key |-> "Series", Volume |-> "", Year |-> "2032", Extra |-> "", Source |-> "", Part |-> "", parts |-> 13],
         [name |-> "Series", Chapter |-> "012", filename |-> filename, pattern |-> "Complex_Series2", key |-> "Series", Volume |-> "", Year |-> "2032", Extra |-> "", Source |-> "", Part |-> "", parts |-> 13],
         [name |-> "Series", Chapter |-> "012", filename |-> filename, pattern |-> "Ch_bare", key |-> "Series", Volume |-> "", Year |-> "", Extra |-> "", Source |-> "", Part |-> "", parts |-> 9],
         [name |-> "Series", Chapter |-> "012", filename |-> filename, pattern |-> "Series_Bare_Chapter", key |-> "Series", Volume |-> "", Year |-> "", Extra |-> "", Source |-> "", Part |-> "", parts |-> 9],
         [name |-> "Series 012", Chapter |-> "", filename |-> filename, pattern |-> "Chapter", key |-> "Title", Volume |-> "", Year |-> "2032", Extra |-> "", Source |-> "", Part |-> "", parts |-> 14],
         [name |-> "", Chapter |-> "012", filename |-> filename, pattern |-> "Bare_Ch", key |-> "", Volume |-> "", Year |-> "", Extra |-> "", Source |-> "", Part |-> "", parts |-> 3]}
      [] filename = "A- c1.cbz" ->
        {[name |-> "A-", Chapter |-> "1", filename |-> filename, pattern |-> "ChapterExtras", key |-> "Title", Volume |-> "", Year |-> "", Extra |-> "", Source |-> "", Part |-> "", parts |-> 3],
         [name |-> "A-", Chapter |-> "1", filename |-> filename, pattern |-> "Chapter", key |-> "Title", Volume |-> "", Year |-> "", Extra |-> "", Source |-> "", Part |-> "", parts |-> 3]}
      [] filename = "Beta 12 v3 (x).cbz" ->
        {[name |-> "Beta", Chapter |-> "12", filename |-> filename, pattern |-> "Ch_bare", key |-> "Series", Volume |-> "", Year |-> "", Extra |-> "", Source |-> "", Part |-> "", parts |-> 6],
         [name |-> "Beta 12", Chapter |-> "", filename |-> filename, pattern |-> "Volume", key |-> "Title", Volume |-> "3", Year |-> "", Extra |-> "", Source |-> "x", Part |-> "", parts |-> 9],
         [name |-> "Beta", Chapter |-> "12", filename |-> filename, pattern |-> "Series_Bare_Chapter", key |-> "Series", Volume |-> "", Year |-> "", Extra |-> "", Source |-> "", Part |-> "", parts |-> 6],
         [name |-> "Beta 12 v3", Chapter |-> "", filename |-> filename, pattern |-> "Chapter", key |-> "Title", Volume |-> "", Year |-> "", Extra |-> "", Source |-> "x", Part |-> "", parts |-> 11],
         [name |-> "", Chapter |-> "12", filename |-> filename, pattern |-> "Bare_Ch", key |-> "", Volume |-> "", Year |-> "", Extra |-> "", Source |-> "", Part |-> "", parts |-> 2]}
      [] filename = "Naruto ch 12.cbz" ->
        {[name |-> "Naruto", Chapter |-> "", filename |-> filename, pattern |-> "ChapterExtras", key |-> "Title", Volume |-> "", Year |-> "", Extra |-> "", Source |-> "", Part |-> "", parts |-> 6],
         [name |-> "Naruto ch", Chapter |-> "12", filename |-> filename, pattern |-> "Chapter", key |-> "Title", Volume |-> "", Year |-> "", Extra |-> "", Source |-> "", Part |-> "", parts |-> 11]}
      [] filename = "Vol. 3 Ch. 12.cbz" ->
        {[name |-> "Vol.", Chapter |-> "3", filename |-> filename, pattern |-> "Ch_bare", key |-> "Series", Volume |-> "", Year |-> "", Extra |-> "", Source |-> "", Part |-> "", parts |-> 5],
         [name |-> "Vol. 3", Chapter |-> "12", filename |-> filename, pattern |-> "Series_Ch_Number", key |-> "Series", Volume |-> "", Year |-> "", Extra |-> "", Source |-> "", Part |-> "", parts |-> 8],
         [name |-> "Vol.", Chapter |-> "3", filename |-> filename, pattern |-> "Series_Bare_Chapter", key |-> "Series", Volume |-> "", Year |-> "", Extra |-> "", Source |-> "", Part |-> "", parts |-> 5],
         [name |-> "Vol. 3 Ch.", Chapter |-> "12", filename |-> filename, pattern |-> "Chapter", key |-> "Title", Volume |-> "", Year |-> "", Extra |-> "", Source |-> "", Part |-> "", parts |-> 12],
         [name |-> "", Chapter |-> "3", filename |-> filename, pattern |-> "Bare_Ch", key |-> "", Volume |-> "", Year |-> "", Extra |-> "", Source |-> "", Part |-> "", parts |-> 1]}
      [] filename = "7 (2032).cbz" ->
        {[name |-> "7", Chapter |-> "", filename |-> filename, pattern |-> "FullTitle_Year", key |-> "Series", Volume |-> "", Year |-> "2032", Extra |-> "", Source |-> "", Part |-> "", parts |-> 5],
         [name |-> "7", Chapter |-> "", filename |-> filename, pattern |-> "Chapter", key |-> "Title", Volume |-> "", Year |-> "2032", Extra |-> "", Source |-> "", Part |-> "", parts |-> 5]}
      [] filename = "A v3 ch 12.cbz" ->
        {[name |-> "A", Chapter |-> "", filename |-> filename, pattern |-> "Volume", key |-> "Title", Volume |-> "3", Year |-> "", Extra |-> "", Source |-> "", Part |-> "", parts |-> 2],
         [name |-> "A v3", Chapter |-> "", filename |-> filename, pattern |-> "ChapterExtras", key |-> "Title", Volume |-> "", Year |-> "", Extra |-> "", Source |-> "", Part |-> "", parts |-> 4],
         [name |-> "A v3 ch", Chapter |-> "12", filename |-> filename, pattern |-> "Chapter", key |-> "Title", Volume |-> "", Year |-> "", Extra |-> "", Source |-> "", Part |-> "", parts |-> 9]}

\* the outcome of the string tests of lines 341-440, 453-469, 484-496,
\* 533-590, 603-618 and 627-636 on the fields of the match_dicts above: the
\* tests that hold, by pattern and file name
StringTests ==
    {<<"trailing_dash", "Chapter", "One Piece - 12.cbz">>,
     <<"decent_length", "Chapter", "One Piece - 12.cbz">>,
     <<"trailing_separator", "Chapter", "One Piece - 12.cbz">>,
     <<"min_length", "Chapter", "One Piece - 12.cbz">>,
     <<"chapter_float", "Chapter", "One Piece - 12.cbz">>,
     <<"chapter_realistic", "Chapter", "One Piece - 12.cbz">>,
     <<"decent_length", "FullTitle_Year", "Series 012 (2032).cbz">>,
     <<"min_length", "FullTitle_Year", "Series 012 (2032).cbz">>,
     <<"decent_length", "Complete_Series", "Series 012 (2032).cbz">>,
     <<"min_length", "Complete_Series", "Series 012 (2032).cbz">>,
     <<"complex_format", "Complete_Series", "Series 012 (2032).cbz">>,
     <<"chapter_float", "Complete_Series", "Series 012 (2032).cbz">>,
     <<"chapter_realistic", "Complete_Series", "Series 012 (2032).cbz">>,
     <<"decent_length", "Complex_Series", "Series 012 (2032).cbz">>,
     <<"min_length", "Complex_Series", "Series 012 (2032).cbz">>,
     <<"complex_format", "Complex_Series", "Series 012 (2032).cbz">>,
     <<"chapter_float", "Complex_Series", "Series 012 (2032).cbz">>,
     <<"chapter_realistic", "Complex_Series", "Series 012 (2032).cbz">>,
     <<"decent_length", "Complex_SeriesDecimal", "Series 012 (2032).cbz">>,
     <<"min_length", "Complex_SeriesDecimal", "Series 012 (2032).cbz">>,
     <<"complex_format", "Complex_SeriesDecimal", "Series 012 (2032).cbz">>,
     <<"chapter_float", "Complex_SeriesDecimal", "Series 012 (2032).cbz">>,
     <<"chapter_realistic", "Complex_SeriesDecimal", "Series 012 (2032).cbz">>,
     <<"decent_length", "Complex_Series2", "Series 012 (2032).cbz">>,
     <<"min_length", "Complex_Series2", "Series 012 (2032).cbz">>,
     <<"complex_format", "Complex_Series2", "Series 012 (2032).cbz">>,
     <<"chapter_float", "Complex_Series2", "Series 012 (2032).cbz">>,
     <<"chapter_realistic", "Complex_Series2", "Series 012 (2032).cbz">>,
     <<"decent_length", "Ch_bare", "Series 012 (2032).cbz">>,
     <<"min_length", "Ch_bare", "Series 012 (2032).cbz">>,
     <<"complex_format", "Ch_bare", "Series 012 (2032).cbz">>,
     <<"chapter_float", "Ch_bare", "Series 012 (2032).cbz">>,
     <<"chapter_realistic", "Ch_bare", "Series 012 (2032).cbz">>,
     <<"decent_length", "Series_Bare_Chapter", "Series 012 (2032).cbz">>,
     <<"min_length", "Series_Bare_Chapter", "Series 012 (2032).cbz">>,
     <<"complex_format", "Series_Bare_Chapter", "Series 012 (2032).cbz">>,
     <<"chapter_float", "Series_Bare_Chapter", "Series 012 (2032).cbz">>,
     <<"chapter_realistic", "Series_Bare_Chapter", "Series 012 (2032).cbz">>,
     <<"decent_length", "Chapter", "Series 012 (2032).cbz">>,
     <<"min_length", "Chapter", "Series 012 (2032).cbz">>,
     <<"chapter_float", "Bare_Ch", "Series 012 (2032).cbz">>,
     <<"chapter_realistic", "Bare_Ch", "Series 012 (2032).cbz">>,
     <<"trailing_dash", "ChapterExtras", "A- c1.cbz">>,
     <<"trailing_separator", "ChapterExtras", "A- c1.cbz">>,
     <<"min_length", "ChapterExtras", "A- c1.cbz">>,
     <<"chapter_float", "ChapterExtras", "A- c1.cbz">>,
     <<"chapter_realistic", "ChapterExtras", "A- c1.cbz">>,
     <<"trailing_dash", "Chapter", "A- c1.cbz">>,
     <<"trailing_separator", "Chapter", "A- c1.cbz">>,
     <<"min_length", "Chapter", "A- c1.cbz">>,
     <<"chapter_float", "Chapter", "A- c1.cbz">>,
     <<"chapter_realistic", "Chapter", "A- c1.cbz">>,
     <<"min_length", "Ch_bare", "Beta 12 v3 (x).cbz">>,
     <<"relative_short", "Ch_bare", "Beta 12 v3 (x).cbz">>,
     <<"single_word", "Ch_bare", "Beta 12 v3 (x).cbz">>,
     <<"low_overlap", "Ch_bare", "Beta 12 v3 (x).cbz">>,
     <<"chapter_float", "Ch_bare", "Beta 12 v3 (x).cbz">>,
     <<"chapter_realistic", "Ch_bare", "Beta 12 v3 (x).cbz">>,
     <<"decent_length", "Volume", "Beta 12 v3 (x).cbz">>,
     <<"min_length", "Volume", "Beta 12 v3 (x).cbz">>,
     <<"volume_float", "Volume", "Beta 12 v3 (x).cbz">>,
     <<"volume_realistic", "Volume", "Beta 12 v3 (x).cbz">>,
     <<"min_length", "Series_Bare_Chapter", "Beta 12 v3 (x).cbz">>,
     <<"relative_short", "Series_Bare_Chapter", "Beta 12 v3 (x).cbz">>,
     <<"single_word", "Series_Bare_Chapter", "Beta 12 v3 (x).cbz">>,
     <<"low_overlap", "Series_Bare_Chapter", "Beta 12 v3 (x).cbz">>,
     <<"chapter_float", "Series_Bare_Chapter", "Beta 12 v3 (x).cbz">>,
     <<"chapter_realistic", "Series_Bare_Chapter", "Beta 12 v3 (x).cbz">>,
     <<"decent_length", "Chapter", "Beta 12 v3 (x).cbz">>,
     <<"min_length", "Chapter", "Beta 12 v3 (x).cbz">>,
     <<"volume_in_series", "Chapter", "Beta 12 v3 (x).cbz">>,
     <<"volume_at_end_of_series", "Chapter", "Beta 12 v3 (x).cbz">>,
     <<"chapter_float", "Bare_Ch", "Beta 12 v3 (x).cbz">>,
     <<"chapter_realistic", "Bare_Ch", "Beta 12 v3 (x).cbz">>,
     <<"decent_length", "ChapterExtras", "Naruto ch 12.cbz">>,
     <<"min_length", "ChapterExtras", "Naruto ch 12.cbz">>,
     <<"single_word", "ChapterExtras", "Naruto ch 12.cbz">>,
     <<"decent_length", "Chapter", "Naruto ch 12.cbz">>,
     <<"min_length", "Chapter", "Naruto ch 12.cbz">>,
     <<"endswith_chapter", "Chapter", "Naruto ch 12.cbz">>,
     <<"chapter_float", "Chapter", "Naruto ch 12.cbz">>,
     <<"chapter_realistic", "Chapter", "Naruto ch 12.cbz">>,
     <<"trailing_separator", "Ch_bare", "Vol. 3 Ch. 12.cbz">>,
     <<"min_length", "Ch_bare", "Vol. 3 Ch. 12.cbz">>,
     <<"single_word", "Ch_bare", "Vol. 3 Ch. 12.cbz">>,
     <<"low_overlap", "Ch_bare", "Vol. 3 Ch. 12.cbz">>,
     <<"chapter_float", "Ch_bare", "Vol. 3 Ch. 12.cbz">>,
     <<"chapter_realistic", "Ch_bare", "Vol. 3 Ch. 12.cbz">>,
     <<"decent_length", "Series_Ch_Number", "Vol. 3 Ch. 12.cbz">>,
     <<"volume_indicator_only", "Series_Ch_Number", "Vol. 3 Ch. 12.cbz">>,
     <<"min_length", "Series_Ch_Number", "Vol. 3 Ch. 12.cbz">>,
     <<"volume_in_series", "Series_Ch_Number", "Vol. 3 Ch. 12.cbz">>,
     <<"chapter_float", "Series_Ch_Number", "Vol. 3 Ch. 12.cbz">>,
     <<"chapter_realistic", "Series_Ch_Number", "Vol. 3 Ch. 12.cbz">>,
     <<"trailing_separator", "Series_Bare_Chapter", "Vol. 3 Ch. 12.cbz">>,
     <<"min_length", "Series_Bare_Chapter", "Vol. 3 Ch. 12.cbz">>,
     <<"single_word", "Series_Bare_Chapter", "Vol. 3 Ch. 12.cbz">>,
     <<"low_overlap", "Series_Bare_Chapter", "Vol. 3 Ch. 12.cbz">>,
     <<"chapter_float", "Series_Bare_Chapter", "Vol. 3 Ch. 12.cbz">>,
     <<"chapter_realistic", "Series_Bare_Chapter", "Vol. 3 Ch. 12.cbz">>,
     <<"decent_length", "Chapter", "Vol. 3 Ch. 12.cbz">>,
     <<"trailing_separator", "Chapter", "Vol. 3 Ch. 12.cbz">>,
     <<"chapter_indicator_end", "Chapter", "Vol. 3 Ch. 12.cbz">>,
     <<"min_length", "Chapter", "Vol. 3 Ch. 12.cbz">>,
     <<"endswith_chapter", "Chapter", "Vol. 3 Ch. 12.cbz">>,
     <<"volume_in_series", "Chapter", "Vol. 3 Ch. 12.cbz">>,
     <<"chapter_float", "Chapter", "Vol. 3 Ch. 12.cbz">>,
     <<"chapter_realistic", "Chapter", "Vol. 3 Ch. 12.cbz">>,
     <<"chapter_float", "Bare_Ch", "Vol. 3 Ch. 12.cbz">>,
     <<"chapter_realistic", "Bare_Ch", "Vol. 3 Ch. 12.cbz">>,
     <<"isdigit", "FullTitle_Year", "7 (2032).cbz">>,
     <<"isdigit", "Chapter", "7 (2032).cbz">>,
     <<"relative_short", "Volume", "A v3 ch 12.cbz">>,
     <<"single_word", "Volume", "A v3 ch 12.cbz">>,
     <<"low_overlap", "Volume", "A v3 ch 12.cbz">>,
     <<"volume_float", "Volume", "A v3 ch 12.cbz">>,
     <<"volume_realistic", "Volume", "A v3 ch 12.cbz">>,
     <<"min_length", "ChapterExtras", "A v3 ch 12.cbz">>,
     <<"volume_in_series", "ChapterExtras", "A v3 ch 12.cbz">>,
     <<"volume_at_end_of_series", "ChapterExtras", "A v3 ch 12.cbz">>,
     <<"decent_length", "Chapter", "A v3 ch 12.cbz">>,
     <<"min_length", "Chapter", "A v3 ch 12.cbz">>,
     <<"endswith_chapter", "Chapter", "A v3 ch 12.cbz">>,
     <<"volume_in_series", "Chapter", "A v3 ch 12.cbz">>,
     <<"chapter_float", "Chapter", "A v3 ch 12.cbz">>,
     <<"chapter_realistic", "Chapter", "A v3 ch 12.cbz">>}

\* len() of the file names, of the pattern names and of the stripped Series
\* and Title values
Length(s) ==
    CASE s = "7" -> 1
      [] s = "7 (2032).cbz" -> 12
      [] s = "A" -> 1
      [] s = "A v3" -> 4
      [] s = "A v3 ch" -> 7
      [] s = "A v3 ch 12.cbz" -> 14
      [] s = "A-" -> 2
      [] s = "A- c1.cbz" -> 9
      [] s = "Bare_Ch" -> 7
      [] s = "Beta" -> 4
      [] s = "Beta 12" -> 7
      [] s = "Beta 12 v3" -> 10
      [] s = "Beta 12 v3 (x).cbz" -> 18
      [] s = "Ch_bare" -> 7
      [] s = "Chapter" -> 7
      [] s = "ChapterExtras" -> 13
      [] s = "Complete_Series" -> 15
      [] s = "Complex_Series" -> 14
      [] s = "Complex_Series2" -> 15
      [] s = "Complex_SeriesDecimal" -> 21
      [] s = "FullTitle_Year" -> 14
      [] s = "Naruto" -> 6
      [] s = "Naruto ch" -> 9
      [] s = "Naruto ch 12.cbz" -> 16
      [] s = "One Piece -" -> 11
      [] s = "One Piece - 12.cbz" -> 18
      [] s = "Series" -> 6
      [] s = "Series 012" -> 10
      [] s = "Series 012 (2032).cbz" -> 21
      [] s = "Series_Bare_Chapter" -> 19
      [] s = "Series_Ch_Number" -> 16
      [] s = "Vol." -> 4
      [] s = "Vol. 3" -> 6
      [] s = "Vol. 3 Ch." -> 10
      [] s = "Vol. 3 Ch. 12.cbz" -> 17
      [] s = "Volume" -> 6

\* int(value) of line 511 for the Year values
YearValue(value) ==
    CASE value = "2032" -> 2032

\* GROUP_WEIGHTS, lines 174-183, in tenths of a point
GROUP_WEIGHTS ==
    [Series |-> 100, Title |-> 100, Chapter |-> 80, Volume |-> 60, Year |-> 30,
     Extra |-> 20, Source |-> 10, Part |-> 10]

\* the functions that call score_match (lines 888, 2121, 2301, 2561)
CallSites ==
    {"score_all_patterns", "test_patterns", "extract_series_name",
     "get_potential_series_name"}

\* the keys the caller adds to the match_dict before it calls score_match:
\* score_all_patterns adds two (lines 886-887), the other callers one (lines
\* 2120, 2300, 2560); they are strings, so the loop of line 280 gives each the
\* default weight of line 284 and line 325 joins their values
PrivateKeys(site) ==
    IF site = "score_all_patterns" THEN {"_pattern_name", "_original_filename"}
    ELSE {"_pattern_name"}

\* line 325: len(parts), the values of the groups and of the added keys joined
parts(match_dict, filename, site) ==
    match_dict.parts
    + (IF "_pattern_name" \in PrivateKeys(site) THEN Length(match_dict.pattern) ELSE 0)
    + (IF "_original_filename" \in PrivateKeys(site) THEN Length(filename) ELSE 0)

\* the patterns whose name starts with 'Webtoon_' (lines 135-142)
WebtoonPatterns ==
    {"Webtoon_Season_Bracket", "Webtoon_Season", "Webtoon_S_c",
     "Webtoon_Season_Epilogue", "Webtoon_Season_Parentheses", "Webtoon_Episode",
     "Webtoon_Bracket_Vol_Ch", "Webtoon_Hash_Ep"}

\* the patterns named at lines 381, 395 and 412
ComplexPatterns == {"Complex_Series", "Complex_Series2", "Complex_SeriesDecimal"}

\* a string test of the scorer holds for the fields of match_dict
Test(t, match_dict) ==
    <<t, match_dict.pattern, match_dict.filename>> \in StringTests

Min(a, b) == IF a < b THEN a ELSE b

\* is_likely_abbreviation, lines 624-638, of the stripped Series or Title
is_likely_abbreviation(match_dict) == Test("abbreviation", match_dict)

\* validate_match, lines 597-622: only the Series or Title value is examined;
\* a trailing dash after more than 5 characters ends the examination (line 607)
validate_match(match_dict) ==
    IF match_dict.key = "" THEN TRUE
    ELSE IF Test("trailing_dash", match_dict) /\ Test("decent_length", match_dict)
    THEN TRUE
    ELSE IF /\ Test("trailing_separator", match_dict)
            /\ ~is_likely_abbreviation(match_dict)
    THEN FALSE
    ELSE IF Test("chapter_indicator_end", match_dict) THEN FALSE
    ELSE ~Test("volume_indicator_only", match_dict)

\* lines 260-277: the bonus of the pattern name
pattern_bonus(match_dict) ==
    IF match_dict.pattern \in WebtoonPatterns THEN 50
    ELSE IF match_dict.pattern = "Series_Oneshot_Year" THEN 60
    ELSE IF match_dict.pattern = "Series_Dash_Ch" THEN 40
    ELSE IF /\ match_dict.pattern \in {"Complete_Series", "Complex_Series"}
            /\ match_dict.key = "Series"
            /\ match_dict.Chapter # ""
            /\ match_dict.Year # ""
    THEN 30
    ELSE 0

\* validate_series_field, lines 334-445: the adjustment and the penalty flag
validate_series_field(match_dict) ==
    LET t(name) == Test(name, match_dict)
        webtoon == match_dict.pattern \in WebtoonPatterns
        complex == match_dict.pattern \in ComplexPatterns
        waived == complex /\ t("complex_format")
        when(c, points) == IF c THEN points ELSE 0
    IN [score_adjustment |->
            (IF t("min_length") THEN Min(Length(match_dict.name), 30) ELSE -50)
            + when(t("isdigit"), -80)
            + when(t("endswith_chapter"), -100)
            + when(t("trailing_separator") /\ ~is_likely_abbreviation(match_dict),
                   -80)
            + when(t("volume_in_series"), -150)
            + when(~webtoon /\ t("season_in_series"), -150)
            + when(t("relative_short") /\ complex /\ ~waived, -80)
            + when(t("single_word") /\ ~waived, -100)
            + when(t("low_overlap") /\ ~waived, -80)
            + when(t("chapter_in_series"), -120)
            + when(t("episode_in_series") /\ ~webtoon, -100)
            + when(t("repeated_number"), -150),
        has_significant_penalty |->
            \/ t("endswith_chapter")
            \/ t("volume_in_series")
            \/ ~webtoon /\ t("season_in_series")
            \/ t("repeated_number")]

\* validate_chapter_field, lines 447-474
validate_chapter_field(match_dict) ==
    LET t(name) == Test(name, match_dict)
    IN [score_adjustment |->
            (IF t("chapter_float")
             THEN (IF t("chapter_realistic") THEN 20 ELSE -50)
             ELSE (IF t("chapter_range") THEN 10 ELSE -20))
            + (IF t("chapter_text") THEN -100 ELSE 0),
        has_significant_penalty |-> t("chapter_text")]

\* validate_volume_field, lines 476-501
validate_volume_field(match_dict) ==
    LET t(name) == Test(name, match_dict)
    IN [score_adjustment |->
            (IF t("volume_float") /\ t("volume_realistic") THEN 10 ELSE -30)
            + (IF t("volume_text") THEN -80 ELSE 0),
        has_significant_penalty |-> t("volume_text")]

\* validate_year_field, lines 503-524, with today the value of
\* date.today().year (line 508); the Year group of every pattern is \d{4}, so
\* int() does not fail
validate_year_field(match_dict, today) ==
    IF 1900 <= YearValue(match_dict.Year) /\ YearValue(match_dict.Year) <= today + 5
    THEN [score_adjustment |-> 10, has_significant_penalty |-> FALSE]
    ELSE [score_adjustment |-> -40, has_significant_penalty |-> TRUE]

\* check_field_pollution, lines 526-595; the volume data in the chapter field
\* (lines 572-578) costs 10 points and sets no penalty flag
check_field_pollution(match_dict) ==
    LET t(name) == Test(name, match_dict)
        when(c, points) == IF c THEN points ELSE 0
    IN [score_adjustment |->
            when(t("series_text_in_chapter"), -150)
            + when(t("chapter_data_in_series"), -150)
            + (IF t("volume_only_series") THEN -150
               ELSE when(t("volume_at_end_of_series"), -100))
            + when(t("volume_in_chapter"), -100)
            + (IF t("series_ends_with_chapter") THEN -200
               ELSE when(t("chapter_hyphen_in_series"), -250)),
        has_significant_penalty |->
            \/ t("series_text_in_chapter")
            \/ t("chapter_data_in_series")
            \/ t("volume_only_series")
            \/ t("volume_at_end_of_series")
            \/ t("series_ends_with_chapter")
            \/ t("chapter_hyphen_in_series")]

\* the checks of the fields that are present, lines 280-304 and 311: a field
\* that is absent contributes nothing
FieldChecks(match_dict, today) ==
    LET none == [score_adjustment |-> 0, has_significant_penalty |-> FALSE]
    IN <<IF match_dict.key # "" THEN validate_series_field(match_dict) ELSE none,
         IF match_dict.Chapter # "" THEN validate_chapter_field(match_dict)
         ELSE none,
         IF match_dict.Volume # "" THEN validate_volume_field(match_dict) ELSE none,
         IF match_dict.Year # "" THEN validate_year_field(match_dict, today)
         ELSE none,
         check_field_pollution(match_dict)>>

\* has_significant_penalty after line 313
has_significant_penalty(match_dict, today) ==
    LET checks == FieldChecks(match_dict, today)
    IN \E i \in DOMAIN checks : checks[i].has_significant_penalty

\* lines 284-285: the weights of the keys whose value is a non-empty string
Weights(match_dict, site) ==
    LET w(key) == IF match_dict[key] # "" THEN GROUP_WEIGHTS[key] ELSE 0
    IN (IF match_dict.key # "" THEN GROUP_WEIGHTS[match_dict.key] ELSE 0)
       + w("Chapter") + w("Volume") + w("Year") + w("Extra") + w("Source")
       + w("Part") + 10 * Cardinality(PrivateKeys(site))

\* lines 307-308
has_series(match_dict) == match_dict.key # ""
has_number(match_dict) == match_dict.Chapter # "" \/ match_dict.Volume # ""

\* line 317: the essential components bonus is given
essential_components_bonus(match_dict, today) ==
    /\ has_series(match_dict)
    /\ has_number(match_dict)
    /\ ~has_significant_penalty(match_dict, today)

\* lines 325-327: the coverage bonus is given
coverage_bonus(match_dict, filename, today, site) ==
    /\ 10 * parts(match_dict, filename, site) > 6 * Length(filename)
    /\ ~has_significant_penalty(match_dict, today)

\* score_match, lines 239-332, called by site on the day whose year is today
score_match(match_dict, filename, today, site) ==
    IF ~validate_match(match_dict) THEN 0
    ELSE LET checks == FieldChecks(match_dict, today)
         IN pattern_bonus(match_dict)
            + Weights(match_dict, site)
            + checks[1].score_adjustment + checks[2].score_adjustment
            + checks[3].score_adjustment + checks[4].score_adjustment
            + checks[5].score_adjustment
            + (IF essential_components_bonus(match_dict, today) THEN 50
               ELSE IF ~has_series(match_dict) THEN -200 ELSE 0)
            + (IF coverage_bonus(match_dict, filename, today, site) THEN 30 ELSE 0)

\* the years the clock of the machine shows
MaxYear == 2027
Years == 2026..MaxYear

\* the calls of score_match and what each returns
ScoreCalls ==
    UNION {{<<site, filename, match_dict, today>> :
               match_dict \in match_dicts(filename)} :
           <<site, filename, today>> \in CallSites \X ScoreFiles \X Years}
Returned ==
    [call \in ScoreCalls |-> score_match(call[3], call[2], call[4], call[1])]

\* lines 888, 2121, 2301 and 2561: a caller scores one match_dict of a file
\* name
ScoreMatch(site, filename, match_dict) ==
    /\ sc_prev' = sc_last
    /\ sc_last' = Some([filename |-> filename, site |-> site,
                        match_dict |-> match_dict, today |-> current_year,
                        score |-> Returned[<<site, filename, match_dict, current_year>>]])
    /\ UNCHANGED current_year
    /\ UNCHANGED <<procVars, convVars, clsVars, dispVars, nameVars>>

\* date.today(), line 508: a new year begins between two calls
NewYear ==
    /\ current_year < MaxYear
    /\ current_year' = current_year + 1
    /\ UNCHANGED <<sc_last, sc_prev>>
    /\ UNCHANGED <<procVars, convVars, clsVars, dispVars, nameVars>>

InitScore ==
    /\ InitProc
    /\ ConvOff
    /\ ClsOff
    /\ DispOff
    /\ NameOff
    /\ current_year \in Years
    /\ sc_last = Null
    /\ sc_prev = Null

NextScore ==
    \/ \E site \in CallSites : \E filename \in ScoreFiles :
          \E match_dict \in match_dicts(filename) :
             ScoreMatch(site, filename, match_dict)
    \/ NewYear

SpecScore == InitScore /\ [][NextScore]_vars

(***************************************************************************)
(* convert_to_webp(source_filepath, temp_dir), lines 1715-1905, followed   *)
(* by the choice of process_cbz_file, lines 1925-1947.                     *)
(***************************************************************************)
\* entry names of an archive: stem and extension; "/" marks a directory entry
EntryNames ==
    {[stem |-> st, ext |-> e] : st \in {"a", "b"}, e \in {"jpg", "png", "webp", "xml"}}
      \cup {[stem |-> "d", ext |-> "/"]}
Archives == {A \in SUBSET EntryNames : Cardinality(A) <= MaxEntries}
ArchiveSizes == {1300, 1400}
MinArchiveSize == 1024

\* os.path.splitext(img_path)[0] + '.webp'
WebpPath(n) == [stem |-> n.stem, ext |-> "webp"]
\* lines 1740-1747
IsImageToConvert(n) == n.ext \in {"jpg", "jpeg", "png"}
IsWebp(n) == n.ext = "webp"
IsDirEntry(n) == n.ext = "/"
OriginalBytes(n) == [of |-> n, fmt |-> "orig"]
ConvertedBytes(n) == [of |-> n, fmt |-> "webp"]
\* size of an entry stored without compression
EntrySize(c) ==
    IF c.fmt = "webp" THEN 450
    ELSE IF c.of.ext = "xml" THEN 100
    ELSE IF c.of.ext = "webp" THEN 500
    ELSE 600
RECURSIVE ZipSize(_)
ZipSize(z) == IF z = <<>> THEN 0 ELSE EntrySize(Head(z).content) + ZipSize(Tail(z))

RECURSIVE WriteAll(_, _, _)
\* new_zip.write(f, rel_path) for every f of a list (lines 1847-1851, 1863-1867)
WriteAll(z, names, d) ==
    IF names = {} THEN z
    ELSE LET n == CHOOSE x \in names : TRUE
         IN WriteAll(Append(z, [name |-> n, content |-> d[n]]), names \ {n}, d)

\* variant of VerifiedResult without the comparison of the entry counts
VerifiedResultNoCount(z, original_file_count) ==
    IF Len(z) = 0 THEN NoArchive
    ELSE IF ZipSize(z) < MinArchiveSize THEN NoArchive
    ELSE [ok |-> TRUE, size |-> ZipSize(z)]

\* lines 1872-1902: the checks on the new archive
VerifiedResult(z, original_file_count) ==
    IF Len(z) = 0 THEN NoArchive
    ELSE IF Len(z) # original_file_count THEN NoArchive
    ELSE IF ZipSize(z) < MinArchiveSize THEN NoArchive
    ELSE [ok |-> TRUE, size |-> ZipSize(z)]

InitConv ==
    /\ InitProc
    /\ ClsOff
    /\ DispOff
    /\ NameOff
    /\ ScoreOff
    /\ cv_pc = "start"
    /\ archive \in Archives
    /\ archive_size \in ArchiveSizes
    /\ disk = EmptyFiles
    /\ running = {}
    /\ completed = {}
    /\ newzip = <<>>
    /\ failed = {}
    /\ cv_result = NoArchive
    /\ file_to_move = "none"

\* lines 1718-1761 and 1808: count the entries, extract, list and sort the
\* files, submit the images
Extract ==
    /\ cv_pc = "start"
    /\ LET all_files == {n \in archive : ~IsDirEntry(n)}
       IN /\ disk' = [n \in all_files |-> OriginalBytes(n)]
          /\ IF all_files = {}
             THEN /\ cv_pc' = "verified"
                  /\ running' = {}
             ELSE /\ cv_pc' = "pool"
                  /\ running' = {n \in all_files : IsImageToConvert(n)}
    /\ UNCHANGED <<archive, archive_size, completed, newzip, failed, cv_result,
                   file_to_move, procVars, clsVars, dispVars,
                   nameVars, scoreVars>>

\* convert_image(img_path) returns in a worker thread, lines 1763-1777
ConvertImage(img, ok) ==
    /\ cv_pc = "pool"
    /\ img \in running
    /\ running' = running \ {img}
    /\ disk' = IF ok
               THEN [n \in DOMAIN disk \cup {WebpPath(img)} |->
                        IF n = WebpPath(img) THEN ConvertedBytes(img) ELSE disk[n]]
               ELSE disk
    /\ completed' = completed \cup {[img |-> img, ok |-> ok]}
    /\ UNCHANGED <<cv_pc, archive, archive_size, newzip, failed, cv_result,
                   file_to_move, procVars, clsVars, dispVars,
                   nameVars, scoreVars>>

\* one turn of the loop over as_completed(futures), lines 1810-1825
CollectEntry(f, d) ==
    IF f.ok THEN [name |-> WebpPath(f.img), content |-> d[WebpPath(f.img)]]
    ELSE [name |-> f.img, content |-> d[f.img]]
\* variant of Collect that leaves a failed image out of the new archive
CollectDroppingFailed(f) ==
    /\ cv_pc = "pool"
    /\ f \in completed
    /\ completed' = completed \ {f}
    /\ newzip' = IF f.ok THEN Append(newzip, CollectEntry(f, disk)) ELSE newzip
    /\ failed' = IF f.ok THEN failed ELSE failed \cup {f.img}
    /\ UNCHANGED <<cv_pc, archive, archive_size, disk, running, cv_result,
                   file_to_move, procVars, clsVars, dispVars,
                   nameVars, scoreVars>>
Collect(f) ==
    /\ cv_pc = "pool"
    /\ f \in completed
    /\ completed' = completed \ {f}
    /\ newzip' = Append(newzip, CollectEntry(f, disk))
    /\ failed' = IF f.ok THEN failed ELSE failed \cup {f.img}
    /\ UNCHANGED <<cv_pc, archive, archive_size, disk, running, cv_result,
                   file_to_move, procVars, clsVars, dispVars,
                   nameVars, scoreVars>>

\* lines 1840-1902: add the WebP files and the other files, then verify
Repack ==
    /\ cv_pc = "pool"
    /\ running = {}
    /\ completed = {}
    /\ LET all_files == {n \in archive : ~IsDirEntry(n)}
           z1 == WriteAll(newzip, {n \in all_files : IsWebp(n)}, disk)
           z2 == WriteAll(z1, {n \in all_files : ~IsWebp(n) /\ ~IsImageToConvert(n)}, disk)
       IN /\ newzip' = z2
          /\ cv_result' = VerifiedResult(z2, Cardinality(archive))
    /\ cv_pc' = "verified"
    /\ UNCHANGED <<archive, archive_size, disk, running, completed, failed,
                   file_to_move, procVars, clsVars, dispVars,
                   nameVars, scoreVars>>

\* process_cbz_file, lines 1925-1947
ChooseFile ==
    /\ cv_pc = "verified"
    /\ file_to_move' = IF UseConverted(cv_result, archive_size)
                       THEN "converted" ELSE "original"
    /\ cv_pc' = "done"
    /\ UNCHANGED <<archive, archive_size, disk, running, completed, newzip,
                   failed, cv_result, procVars, clsVars, dispVars,
                   nameVars, scoreVars>>

NextConv ==
    \/ Extract
    \/ \E img \in EntryNames, ok \in BOOLEAN : ConvertImage(img, ok)
    \/ \E f \in completed : Collect(f)
    \/ Repack
    \/ ChooseFile

SpecConv == InitConv /\ [][NextConv]_vars

(***************************************************************************)
(* The classifier: match_best_pattern and the pattern memory.  The regular *)
(* expressions and score_match are tabulated for the file names of         *)
(* ClsFiles; scores are in tenths of a point.                              *)
(***************************************************************************)
MaxCalls == 3
MaxSessions == 2

\* series names the operator types at the prompts of lines 1166 and 1225
ManualNames ==
    {"S"}

\* file names handed to match_best_pattern
ClsFiles ==
    {"S Chapter 12.cbz", "S Chapter 13 v2.cbz", "S Ch. 14.cbz", "Sun c1.cbz", "A- c1.cbz", "Title. v02 - Ch 13.cbz", "X - Vol. 2 Ch. 13.cbz", "Naruto.cbz", "_12_x.cbz", "Unknown 12 (2020).cbz", "A (2020).cbz"}

\* score_all_patterns, lines 878-893: the matches of the patterns of lines
\* 125-172 sorted by descending score (score_match, in tenths of a point);
\* series is Series or Title, "" is a group that did not take part
score_all_patterns(fn) ==
    CASE fn = "S Chapter 12.cbz" -> <<[pattern |-> "Ch_bare2", series |-> "S", chapter |-> "12", volume |-> "", score |-> 150],
            [pattern |-> "Series_Ch_Number", series |-> "S", chapter |-> "12", volume |-> "", score |-> 150],
            [pattern |-> "Series_Chapter", series |-> "S", chapter |-> "12", volume |-> "", score |-> 150],
            [pattern |-> "Chapter", series |-> "S Chapter", chapter |-> "12", volume |-> "", score |-> 0]>>
      [] fn = "S Chapter 13 v2.cbz" -> <<[pattern |-> "Ch_bare2", series |-> "S", chapter |-> "13", volume |-> "", score |-> 70],
            [pattern |-> "Series_Ch_Number", series |-> "S", chapter |-> "13", volume |-> "", score |-> 70],
            [pattern |-> "Series_Chapter", series |-> "S", chapter |-> "13", volume |-> "", score |-> 70],
            [pattern |-> "Ch_bare", series |-> "S Chapter", chapter |-> "13", volume |-> "", score |-> 0],
            [pattern |-> "Series_Bare_Chapter", series |-> "S Chapter", chapter |-> "13", volume |-> "", score |-> 0],
            [pattern |-> "Volume", series |-> "S Chapter 13", chapter |-> "", volume |-> "2", score |-> -48],
            [pattern |-> "Bare_Ch", series |-> "", chapter |-> "13", volume |-> "", score |-> -50],
            [pattern |-> "Chapter", series |-> "S Chapter 13", chapter |-> "", volume |-> "", score |-> -118]>>
      [] fn = "S Ch. 14.cbz" -> <<[pattern |-> "Series_Ch_Number", series |-> "S", chapter |-> "14", volume |-> "", score |-> 150],
            [pattern |-> "Chapter", series |-> "S Ch.", chapter |-> "14", volume |-> "", score |-> 0]>>
      [] fn = "Sun c1.cbz" -> <<[pattern |-> "ChapterExtras", series |-> "Sun", chapter |-> "1", volume |-> "", score |-> 303],
            [pattern |-> "Chapter", series |-> "Sun", chapter |-> "1", volume |-> "", score |-> 303]>>
      [] fn = "A- c1.cbz" -> <<[pattern |-> "ChapterExtras", series |-> "A-", chapter |-> "1", volume |-> "", score |-> 0],
            [pattern |-> "Chapter", series |-> "A-", chapter |-> "1", volume |-> "", score |-> 0]>>
      [] fn = "Title. v02 - Ch 13.cbz" -> <<[pattern |-> "Series_Dash_Ch", series |-> "Title. v02", chapter |-> "13", volume |-> "", score |-> 20],
            [pattern |-> "Series_Vol_Ch", series |-> "Title.", chapter |-> "13", volume |-> "02", score |-> 0],
            [pattern |-> "Volume", series |-> "Title.", chapter |-> "", volume |-> "02", score |-> 0],
            [pattern |-> "Chapter", series |-> "Title. v02 - Ch", chapter |-> "13", volume |-> "", score |-> 0]>>
      [] fn = "X - Vol. 2 Ch. 13.cbz" -> <<[pattern |-> "Series_Ch_Number", series |-> "X - Vol. 2", chapter |-> "13", volume |-> "", score |-> 80],
            [pattern |-> "Titled_Vol", series |-> "X", chapter |-> "", volume |-> "2", score |-> 40],
            [pattern |-> "Series_Vol_Ch", series |-> "X -", chapter |-> "13", volume |-> "2", score |-> 0],
            [pattern |-> "Ch_bare", series |-> "X - Vol.", chapter |-> "2", volume |-> "", score |-> 0],
            [pattern |-> "Series_Bare_Chapter", series |-> "X - Vol.", chapter |-> "2", volume |-> "", score |-> 0],
            [pattern |-> "Chapter", series |-> "X - Vol. 2 Ch.", chapter |-> "13", volume |-> "", score |-> 0],
            [pattern |-> "Bare_Ch", series |-> "", chapter |-> "2", volume |-> "", score |-> -50]>>
      [] fn = "Naruto.cbz" -> <<>>
      [] fn = "_12_x.cbz" -> <<[pattern |-> "Bare_Ch", series |-> "", chapter |-> "12", volume |-> "", score |-> -50]>>
      [] fn = "Unknown 12 (2020).cbz" -> <<[pattern |-> "Complete_Series", series |-> "Unknown", chapter |-> "12", volume |-> "", score |-> 377],
            [pattern |-> "Ch_bare", series |-> "Unknown", chapter |-> "12", volume |-> "", score |-> 307],
            [pattern |-> "Series_Bare_Chapter", series |-> "Unknown", chapter |-> "12", volume |-> "", score |-> 307],
            [pattern |-> "FullTitle_Year", series |-> "Unknown 12", chapter |-> "", volume |-> "", score |-> 200],
            [pattern |-> "Chapter", series |-> "Unknown 12", chapter |-> "", volume |-> "", score |-> 200],
            [pattern |-> "Bare_Ch", series |-> "", chapter |-> "12", volume |-> "", score |-> -50]>>
      [] fn = "A (2020).cbz" -> <<[pattern |-> "FullTitle_Year", series |-> "A", chapter |-> "", volume |-> "", score |-> 140],
            [pattern |-> "Chapter", series |-> "A", chapter |-> "", volume |-> "", score |-> 140]>>

\* extract_series_name, lines 2290-2315
extract_series_name(fn) ==
    CASE fn = "S Chapter 12.cbz" -> "S"
      [] fn = "S Chapter 13 v2.cbz" -> "S"
      [] fn = "S Ch. 14.cbz" -> "S"
      [] fn = "Sun c1.cbz" -> "Sun"
      [] fn = "A- c1.cbz" -> "A- c1.cbz"
      [] fn = "Title. v02 - Ch 13.cbz" -> "Title. v02"
      [] fn = "X - Vol. 2 Ch. 13.cbz" -> "X - Vol. 2"
      [] fn = "Naruto.cbz" -> "Naruto.cbz"
      [] fn = "_12_x.cbz" -> "_12_x.cbz"
      [] fn = "Unknown 12 (2020).cbz" -> "Unknown 12"
      [] fn = "A (2020).cbz" -> "A"

\* the patterns of lines 125-172 without a Title group, of those an operator
\* choice can store for ClsFiles
NoTitleGroup ==
    {"Bare_Ch", "Ch_bare", "Ch_bare2", "Complete_Series", "FullTitle_Year", "Series_Bare_Chapter", "Series_Ch_Number", "Series_Chapter", "Series_Dash_Ch", "Titled_Vol"}

\* the first pattern called pattern_name applied to fn with regex.match and
\* scored by score_match (lines 792-809 and 837-842): <<>> is no match
ReApply(pattern_name, fn) ==
    CASE fn = "S Chapter 12.cbz" /\ pattern_name = "Ch_bare2" -> <<[pattern |-> "Ch_bare2", series |-> "S", chapter |-> "12", volume |-> "", score |-> 150]>>
      [] fn = "S Chapter 12.cbz" /\ pattern_name = "Chapter" -> <<[pattern |-> "Chapter", series |-> "S Chapter", chapter |-> "12", volume |-> "", score |-> 0]>>
      [] fn = "S Chapter 12.cbz" /\ pattern_name = "Series_Ch_Number" -> <<[pattern |-> "Series_Ch_Number", series |-> "S", chapter |-> "12", volume |-> "", score |-> 150]>>
      [] fn = "S Chapter 12.cbz" /\ pattern_name = "Series_Chapter" -> <<[pattern |-> "Series_Chapter", series |-> "S", chapter |-> "12", volume |-> "", score |-> 150]>>
      [] fn = "S Chapter 13 v2.cbz" /\ pattern_name = "Bare_Ch" -> <<[pattern |-> "Bare_Ch", series |-> "", chapter |-> "13", volume |-> "", score |-> -50]>>
      [] fn = "S Chapter 13 v2.cbz" /\ pattern_name = "Ch_bare" -> <<[pattern |-> "Ch_bare", series |-> "S Chapter", chapter |-> "13", volume |-> "", score |-> 0]>>
      [] fn = "S Chapter 13 v2.cbz" /\ pattern_name = "Ch_bare2" -> <<[pattern |-> "Ch_bare2", series |-> "S", chapter |-> "13", volume |-> "", score |-> 70]>>
      [] fn = "S Chapter 13 v2.cbz" /\ pattern_name = "Chapter" -> <<[pattern |-> "Chapter", series |-> "S Chapter 13", chapter |-> "", volume |-> "", score |-> -118]>>
      [] fn = "S Chapter 13 v2.cbz" /\ pattern_name = "Series_Bare_Chapter" -> <<[pattern |-> "Series_Bare_Chapter", series |-> "S Chapter", chapter |-> "13", volume |-> "", score |-> 0]>>
      [] fn = "S Chapter 13 v2.cbz" /\ pattern_name = "Series_Ch_Number" -> <<[pattern |-> "Series_Ch_Number", series |-> "S", chapter |-> "13", volume |-> "", score |-> 70]>>
      [] fn = "S Chapter 13 v2.cbz" /\ pattern_name = "Series_Chapter" -> <<[pattern |-> "Series_Chapter", series |-> "S", chapter |-> "13", volume |-> "", score |-> 70]>>
      [] fn = "S Ch. 14.cbz" /\ pattern_name = "Chapter" -> <<[pattern |-> "Chapter", series |-> "S Ch.", chapter |-> "14", volume |-> "", score |-> 0]>>
      [] fn = "S Ch. 14.cbz" /\ pattern_name = "Series_Ch_Number" -> <<[pattern |-> "Series_Ch_Number", series |-> "S", chapter |-> "14", volume |-> "", score |-> 150]>>
      [] fn = "Sun c1.cbz" /\ pattern_name = "Chapter" -> <<[pattern |-> "Chapter", series |-> "Sun", chapter |-> "1", volume |-> "", score |-> 303]>>
      [] fn = "Sun c1.cbz" /\ pattern_name = "ChapterExtras" -> <<[pattern |-> "ChapterExtras", series |-> "Sun", chapter |-> "1", volume |-> "", score |-> 303]>>
      [] fn = "A- c1.cbz" /\ pattern_name = "Chapter" -> <<[pattern |-> "Chapter", series |-> "A-", chapter |-> "1", volume |-> "", score |-> 0]>>
      [] fn = "A- c1.cbz" /\ pattern_name = "ChapterExtras" -> <<[pattern |-> "ChapterExtras", series |-> "A-", chapter |-> "1", volume |-> "", score |-> 0]>>
      [] fn = "Title. v02 - Ch 13.cbz" /\ pattern_name = "Chapter" -> <<[pattern |-> "Chapter", series |-> "Title. v02 - Ch", chapter |-> "13", volume |-> "", score |-> 0]>>
      [] fn = "Title. v02 - Ch 13.cbz" /\ pattern_name = "Series_Dash_Ch" -> <<[pattern |-> "Series_Dash_Ch", series |-> "Title. v02", chapter |-> "13", volume |-> "", score |-> 20]>>
      [] fn = "X - Vol. 2 Ch. 13.cbz" /\ pattern_name = "Bare_Ch" -> <<[pattern |-> "Bare_Ch", series |-> "", chapter |-> "2", volume |-> "", score |-> -50]>>
      [] fn = "X - Vol. 2 Ch. 13.cbz" /\ pattern_name = "Ch_bare" -> <<[pattern |-> "Ch_bare", series |-> "X - Vol.", chapter |-> "2", volume |-> "", score |-> 0]>>
      [] fn = "X - Vol. 2 Ch. 13.cbz" /\ pattern_name = "Chapter" -> <<[pattern |-> "Chapter", series |-> "X - Vol. 2 Ch.", chapter |-> "13", volume |-> "", score |-> 0]>>
      [] fn = "X - Vol. 2 Ch. 13.cbz" /\ pattern_name = "Series_Bare_Chapter" -> <<[pattern |-> "Series_Bare_Chapter", series |-> "X - Vol.", chapter |-> "2", volume |-> "", score |-> 0]>>
      [] fn = "X - Vol. 2 Ch. 13.cbz" /\ pattern_name = "Series_Ch_Number" -> <<[pattern |-> "Series_Ch_Number", series |-> "X - Vol. 2", chapter |-> "13", volume |-> "", score |-> 80]>>
      [] fn = "X - Vol. 2 Ch. 13.cbz" /\ pattern_name = "Titled_Vol" -> <<[pattern |-> "Titled_Vol", series |-> "X", chapter |-> "", volume |-> "2", score |-> 40]>>
      [] fn = "_12_x.cbz" /\ pattern_name = "Bare_Ch" -> <<[pattern |-> "Bare_Ch", series |-> "", chapter |-> "12", volume |-> "", score |-> -50]>>
      [] fn = "Unknown 12 (2020).cbz" /\ pattern_name = "Bare_Ch" -> <<[pattern |-> "Bare_Ch", series |-> "", chapter |-> "12", volume |-> "", score |-> -50]>>
      [] fn = "Unknown 12 (2020).cbz" /\ pattern_name = "Ch_bare" -> <<[pattern |-> "Ch_bare", series |-> "Unknown", chapter |-> "12", volume |-> "", score |-> 307]>>
      [] fn = "Unknown 12 (2020).cbz" /\ pattern_name = "Chapter" -> <<[pattern |-> "Chapter", series |-> "Unknown 12", chapter |-> "", volume |-> "", score |-> 200]>>
      [] fn = "Unknown 12 (2020).cbz" /\ pattern_name = "Complete_Series" -> <<[pattern |-> "Complete_Series", series |-> "Unknown", chapter |-> "12", volume |-> "", score |-> 377]>>
      [] fn = "Unknown 12 (2020).cbz" /\ pattern_name = "FullTitle_Year" -> <<[pattern |-> "FullTitle_Year", series |-> "Unknown 12", chapter |-> "", volume |-> "", score |-> 200]>>
      [] fn = "Unknown 12 (2020).cbz" /\ pattern_name = "Series_Bare_Chapter" -> <<[pattern |-> "Series_Bare_Chapter", series |-> "Unknown", chapter |-> "12", volume |-> "", score |-> 307]>>
      [] fn = "A (2020).cbz" /\ pattern_name = "Chapter" -> <<[pattern |-> "Chapter", series |-> "A", chapter |-> "", volume |-> "", score |-> 140]>>
      [] fn = "A (2020).cbz" /\ pattern_name = "FullTitle_Year" -> <<[pattern |-> "FullTitle_Year", series |-> "A", chapter |-> "", volume |-> "", score |-> 140]>>
      [] OTHER -> <<>>

\* filename.startswith(prefix), lines 655, 832 and 863
StartsWith ==
    {<<"S Chapter 12.cbz", "S">>,
     <<"S Chapter 12.cbz", "S Chapter">>,
     <<"S Chapter 13 v2.cbz", "S">>,
     <<"S Chapter 13 v2.cbz", "S Chapter">>,
     <<"S Chapter 13 v2.cbz", "S Chapter 13">>,
     <<"S Ch. 14.cbz", "S">>,
     <<"S Ch. 14.cbz", "S Ch.">>,
     <<"Sun c1.cbz", "S">>,
     <<"Sun c1.cbz", "Sun">>,
     <<"A- c1.cbz", "A">>,
     <<"A- c1.cbz", "A-">>,
     <<"A- c1.cbz", "A- c1.cbz">>,
     <<"Title. v02 - Ch 13.cbz", "Title.">>,
     <<"Title. v02 - Ch 13.cbz", "Title. v02">>,
     <<"Title. v02 - Ch 13.cbz", "Title. v02 - Ch">>,
     <<"X - Vol. 2 Ch. 13.cbz", "X">>,
     <<"X - Vol. 2 Ch. 13.cbz", "X -">>,
     <<"X - Vol. 2 Ch. 13.cbz", "X - Vol.">>,
     <<"X - Vol. 2 Ch. 13.cbz", "X - Vol. 2">>,
     <<"X - Vol. 2 Ch. 13.cbz", "X - Vol. 2 Ch.">>,
     <<"Naruto.cbz", "Naruto.cbz">>,
     <<"_12_x.cbz", "_12_x.cbz">>,
     <<"Unknown 12 (2020).cbz", "Unknown">>,
     <<"Unknown 12 (2020).cbz", "Unknown 12">>,
     <<"A (2020).cbz", "A">>}

\* filename LIKE (series_name || '%') in SQLite, line 2243
LikePrefix ==
    {<<"S Chapter 12.cbz", "S">>,
     <<"S Chapter 12.cbz", "S Chapter">>,
     <<"S Chapter 13 v2.cbz", "S">>,
     <<"S Chapter 13 v2.cbz", "S Chapter">>,
     <<"S Chapter 13 v2.cbz", "S Chapter 13">>,
     <<"S Ch. 14.cbz", "S">>,
     <<"S Ch. 14.cbz", "S Ch.">>,
     <<"Sun c1.cbz", "S">>,
     <<"Sun c1.cbz", "Sun">>,
     <<"A- c1.cbz", "A">>,
     <<"A- c1.cbz", "A-">>,
     <<"A- c1.cbz", "A- c1.cbz">>,
     <<"Title. v02 - Ch 13.cbz", "Title.">>,
     <<"Title. v02 - Ch 13.cbz", "Title. v02">>,
     <<"Title. v02 - Ch 13.cbz", "Title. v02 - Ch">>,
     <<"X - Vol. 2 Ch. 13.cbz", "X">>,
     <<"X - Vol. 2 Ch. 13.cbz", "X -">>,
     <<"X - Vol. 2 Ch. 13.cbz", "X - Vol.">>,
     <<"X - Vol. 2 Ch. 13.cbz", "X - Vol. 2">>,
     <<"X - Vol. 2 Ch. 13.cbz", "X - Vol. 2 Ch.">>,
     <<"Naruto.cbz", "Naruto.cbz">>,
     <<"_12_x.cbz", "_12_x.cbz">>,
     <<"Unknown 12 (2020).cbz", "Unknown">>,
     <<"Unknown 12 (2020).cbz", "Unknown 12">>,
     <<"A (2020).cbz", "A">>}

\* LENGTH(series_name), line 2244
NameLength(s) ==
    CASE s = "A" -> 1
      [] s = "A-" -> 2
      [] s = "A- c1.cbz" -> 9
      [] s = "Naruto.cbz" -> 10
      [] s = "S" -> 1
      [] s = "S Ch." -> 5
      [] s = "S Chapter" -> 9
      [] s = "S Chapter 13" -> 12
      [] s = "Sun" -> 3
      [] s = "Title." -> 6
      [] s = "Title. v02" -> 10
      [] s = "Title. v02 - Ch" -> 15
      [] s = "Unknown" -> 7
      [] s = "Unknown 12" -> 10
      [] s = "X" -> 1
      [] s = "X -" -> 3
      [] s = "X - Vol." -> 8
      [] s = "X - Vol. 2" -> 10
      [] s = "X - Vol. 2 Ch." -> 14
      [] s = "_12_x.cbz" -> 9

\* the two regular expressions of detect_format_change, lines 1244-1245
has_volume(fn) ==
    fn \in {"S Chapter 13 v2.cbz", "Title. v02 - Ch 13.cbz", "X - Vol. 2 Ch. 13.cbz"}

has_chapter(fn) ==
    fn \in {"S Chapter 12.cbz", "S Chapter 13 v2.cbz", "S Ch. 14.cbz", "Title. v02 - Ch 13.cbz", "X - Vol. 2 Ch. 13.cbz", "Unknown 12 (2020).cbz"}

\* handle_no_matches, lines 1172-1178: chapter and volume of a manual entry
ManualFields(fn, series_name) ==
    CASE fn = "S Chapter 12.cbz" /\ series_name = "S" -> [chapter |-> "12", volume |-> ""]
      [] fn = "S Chapter 13 v2.cbz" /\ series_name = "S" -> [chapter |-> "13", volume |-> "2"]
      [] fn = "S Ch. 14.cbz" /\ series_name = "S" -> [chapter |-> "14", volume |-> ""]
      [] fn = "Sun c1.cbz" /\ series_name = "S" -> [chapter |-> "", volume |-> ""]
      [] fn = "A- c1.cbz" /\ series_name = "S" -> [chapter |-> "", volume |-> ""]
      [] fn = "Title. v02 - Ch 13.cbz" /\ series_name = "S" -> [chapter |-> "13", volume |-> "02"]
      [] fn = "X - Vol. 2 Ch. 13.cbz" /\ series_name = "S" -> [chapter |-> "2", volume |-> "2"]
      [] fn = "Naruto.cbz" /\ series_name = "S" -> [chapter |-> "", volume |-> ""]
      [] fn = "_12_x.cbz" /\ series_name = "S" -> [chapter |-> "", volume |-> ""]
      [] fn = "Unknown 12 (2020).cbz" /\ series_name = "S" -> [chapter |-> "12", volume |-> ""]
      [] fn = "A (2020).cbz" /\ series_name = "S" -> [chapter |-> "2020", volume |-> ""]

\* handle_manual_pattern, lines 765-777: chapter and volume for a manual row
StoredManualFields(fn, series_name) ==
    CASE fn = "S Chapter 12.cbz" /\ series_name = "S" -> [chapter |-> "12", volume |-> ""]
      [] fn = "S Chapter 13 v2.cbz" /\ series_name = "S" -> [chapter |-> "13", volume |-> "2"]
      [] fn = "S Ch. 14.cbz" /\ series_name = "S" -> [chapter |-> "14", volume |-> ""]
      [] OTHER -> [chapter |-> "", volume |-> ""]

\* try_session_stored_patterns, line 869: the chapter found after the prefix
SessionManualChapter(fn, series_prefix) ==
    CASE fn = "S Chapter 12.cbz" /\ series_prefix = "S" -> "12"
      [] fn = "S Chapter 13 v2.cbz" /\ series_prefix = "S" -> "13"
      [] fn = "S Ch. 14.cbz" /\ series_prefix = "S" -> "14"
      [] OTHER -> ""

\* line 923: scores closer than 4 points are "close" (tenths of a point)
CloseScoreMargin == 40
\* line 927: a best score below 5 points is "low confidence"
LowConfidenceThreshold == 50

\* the memories a call of match_best_pattern reads and writes
Memory ==
    [db |-> series_patterns, choice |-> stored_pattern_choice,
     manual |-> stored_manual_pattern, skip |-> stored_skip_series,
     fmt |-> stored_format_types, declared |-> declared]

\* what a handler returns: the memories, the result (None or an extraction),
\* the prompts the operator has answered so far, and the deciding step
Outcome(m, result, asked, via) ==
    [m |-> m, result |-> result, asked |-> asked, via |-> via]

\* store_pattern_match, lines 2158-2216: insert or update the row of the series
\* (strip() changes none of the series names of ClsFiles and ManualNames)
store_pattern_match(db, series_name, pattern_name, is_manual) ==
    IF series_name = "" THEN db
    ELSE {r \in db : r.series_name # series_name}
         \cup {[series_name |-> series_name, pattern_name |-> pattern_name,
                is_manual |-> is_manual]}

\* get_stored_pattern, lines 2218-2288: the row of the derived series, else
\* the row with the longest series_name that is a prefix of the file name
\* (a set: empty for None, several rows when LIMIT 1 has a tie to break)
get_stored_pattern(db, fn) ==
    LET exact == {r \in db : r.series_name = extract_series_name(fn)}
        prefix == {r \in db : <<fn, r.series_name>> \in LikePrefix}
    IN IF extract_series_name(fn) = "" THEN {}
       ELSE IF exact # {} THEN exact
       ELSE {r \in prefix : \A o \in prefix :
                 NameLength(o.series_name) <= NameLength(r.series_name)}

\* the format fingerprint of a file name, lines 1244-1245 and 1255-1256
Fingerprint(fn) ==
    [has_volume |-> has_volume(fn), has_chapter |-> has_chapter(fn)]

\* detect_format_change, lines 1237-1303
detect_format_change(fmt, series_name, fn) ==
    IF series_name \notin DOMAIN fmt
    THEN [changed |-> FALSE, fmt |-> (series_name :> Fingerprint(fn)) @@ fmt]
    ELSE IF fmt[series_name] # Fingerprint(fn)
    THEN [changed |-> TRUE, fmt |-> [fmt EXCEPT ![series_name] = Fingerprint(fn)]]
    ELSE [changed |-> FALSE, fmt |-> fmt]

\* handle_manual_pattern, lines 757-780
handle_manual_pattern(db_match, fn) ==
    Some([pattern |-> db_match.pattern_name, series |-> db_match.series_name,
          chapter |-> StoredManualFields(fn, db_match.series_name).chapter,
          volume |-> StoredManualFields(fn, db_match.series_name).volume,
          score |-> 0])

\* handle_regular_pattern, lines 783-824
handle_regular_pattern(db_match, fn) ==
    LET match_obj == ReApply(db_match.pattern_name, fn)
    IN IF match_obj = <<>> THEN Null
       ELSE IF /\ match_obj[1].series # ""
               /\ match_obj[1].series # db_match.series_name
       THEN Null
       ELSE match_obj

\* a variant that forces the interactive selection in automatic mode too
force_interactive_always(auto) == TRUE

\* line 751: a rejected stored pattern forces the interactive selection
force_interactive(auto) == ~auto

\* try_database_match, lines 697-754.  ret is "None", "FORCE_INTERACTIVE" or
\* "match"; memory tells what became of the stored row
try_database_match(m, fn, auto) ==
    IF get_stored_pattern(m.db, fn) = {}
    THEN {[m |-> m, ret |-> "None", result |-> Null, asked |-> <<>>,
           memory |-> "none"]}
    ELSE UNION {
        LET d == detect_format_change(m.fmt, db_match.series_name, fn)
            m1 == [m EXCEPT !.fmt = d.fmt]
            result == handle_regular_pattern(db_match, fn)
            apply(asked) ==
                IF db_match.is_manual
                THEN [m |-> m1, ret |-> "match",
                      result |-> handle_manual_pattern(db_match, fn),
                      asked |-> asked, memory |-> "reused"]
                ELSE IF result = Null
                THEN [m |-> [m1 EXCEPT !.choice = Null],
                      ret |-> IF force_interactive(auto)
                              THEN "FORCE_INTERACTIVE" ELSE "None",
                      result |-> Null, asked |-> asked, memory |-> "rejected"]
                ELSE [m |-> m1, ret |-> "match", result |-> result,
                      asked |-> asked, memory |-> "reused"]
        IN IF ~d.changed THEN {apply(<<>>)}
           ELSE IF auto
           THEN {[m |-> m1, ret |-> "None", result |-> Null, asked |-> <<>>,
                  memory |-> "drift"]}
           ELSE {[m |-> m1, ret |-> "None", result |-> Null,
                  asked |-> <<"drift">>, memory |-> "drift"],
                 apply(<<"drift">>)}
        : db_match \in get_stored_pattern(m.db, fn)}

\* try_session_stored_patterns, lines 827-875
try_session_stored_patterns(m, fn) ==
    LET stored == m.choice[1]
        match == ReApply(stored.pattern_name, fn)
        manual == m.manual[1]
        by_manual ==
            IF /\ m.manual # Null
               /\ <<fn, manual.series_prefix>> \in StartsWith
               /\ SessionManualChapter(fn, manual.series_prefix) # ""
            THEN [m |-> m,
                  result |-> Some([pattern |-> "Manual Entry",
                      series |-> manual.series_prefix,
                      chapter |-> SessionManualChapter(fn, manual.series_prefix),
                      volume |-> manual.volume, score |-> 0])]
            ELSE [m |-> m, result |-> Null]
    IN IF /\ m.choice # Null
          /\ <<fn, stored.series_prefix>> \in StartsWith
          /\ match # <<>>
       THEN IF match[1].series # "" /\ match[1].series # stored.series_prefix
            THEN [m |-> [m EXCEPT !.choice = Null], result |-> Null]
            ELSE [m |-> m, result |-> match]
       ELSE by_manual

\* handle_auto_mode_selection, lines 904-911
handle_auto_mode_selection(all_matches) ==
    IF all_matches # <<>> /\ all_matches[1].score > 0
    THEN Some(all_matches[1]) ELSE Null

\* lines 965 and 1110: match_dict.get('Series') or match_dict.get('Title',
\* 'Unknown'), the default being taken when the pattern has no Title group
series_or_unknown(x) ==
    IF x.series = "" /\ x.pattern \in NoTitleGroup THEN "Unknown" ELSE x.series

\* the patterns of lines 125-172 without a Chapter group and without a Volume
\* group, of those that match a file name of ClsFiles
NoChapterGroup == {"FullTitle_Year", "Titled_Vol", "Volume"}
NoVolumeGroup ==
    {"Bare_Ch", "Ch_bare", "Ch_bare2", "Chapter", "ChapterExtras",
     "Complete_Series", "FullTitle_Year", "Series_Bare_Chapter",
     "Series_Ch_Number", "Series_Chapter", "Series_Dash_Ch"}

\* lines 966-967: match_dict.get('Chapter', 'N/A') and match_dict.get('Volume',
\* 'N/A'); the default is taken when the pattern has no such group, a group
\* that did not take part gives None
chapter_or_na(x) ==
    IF x.chapter # "" THEN x.chapter
    ELSE IF x.pattern \in NoChapterGroup THEN "N/A" ELSE "None"
volume_or_na(x) ==
    IF x.volume # "" THEN x.volume
    ELSE IF x.pattern \in NoVolumeGroup THEN "N/A" ELSE "None"

\* the key of line 970
GroupKey(x) == <<series_or_unknown(x), chapter_or_na(x), volume_or_na(x)>>

\* group_functionally_identical_matches, lines 957-993: of the matches with a
\* positive score, the first (best) one of each key, in the order of the list
RECURSIVE GroupFrom(_, _)
GroupFrom(all_matches, seen) ==
    IF all_matches = <<>> THEN <<>>
    ELSE IF Head(all_matches).score <= 0 \/ GroupKey(Head(all_matches)) \in seen
    THEN GroupFrom(Tail(all_matches), seen)
    ELSE <<Head(all_matches)>>
         \o GroupFrom(Tail(all_matches), seen \cup {GroupKey(Head(all_matches))})

group_functionally_identical_matches(all_matches) == GroupFrom(all_matches, {})

\* lines 1068-1071, 1216-1219 and 1227-1230: the one skip entry of the session
DeclareSkip(m, series) ==
    [m EXCEPT !.skip = Some(series), !.declared = @ \cup {series}]

\* lines 1090-1097 and 1129-1136: remember the chosen pattern for the session
\* and in the database
RememberChoice(m, x) ==
    IF series_or_unknown(x) = "" THEN m
    ELSE [m EXCEPT !.choice = Some([pattern_name |-> x.pattern,
                                    series_prefix |-> series_or_unknown(x)]),
                   !.db = store_pattern_match(m.db, series_or_unknown(x),
                                              x.pattern, FALSE)]

\* handle_no_matches, lines 1152-1233: one outcome for each valid answer
handle_no_matches(m, fn, asked) ==
    {Outcome([m EXCEPT !.manual = Some([series_prefix |-> n,
                              chapter |-> ManualFields(fn, n).chapter,
                              volume |-> ManualFields(fn, n).volume]),
                       !.db = store_pattern_match(m.db, n, "Manual Entry", TRUE)],
             Some([pattern |-> "Manual Entry", series |-> n,
                   chapter |-> ManualFields(fn, n).chapter,
                   volume |-> ManualFields(fn, n).volume, score |-> 0]),
             asked \o <<"option", "series">>, "manual") : n \in ManualNames}
    \cup {Outcome(m, Null, asked \o <<"option">>, "skipped")}
    \cup {Outcome(DeclareSkip(m, extract_series_name(fn)), Null,
                  asked \o <<"option", "skipconfirm">>, "skipped")}
    \cup {Outcome(DeclareSkip(m, n), Null,
                  asked \o <<"option", "skipconfirm", "skipname">>, "skipped")
          : n \in ManualNames}

\* handle_multiple_matches, lines 995-1102: one outcome for each valid answer
handle_multiple_matches(m, fn, all_matches, asked) ==
    LET positive_matches == SelectSeq(all_matches, LAMBDA x : x.score > 0)
        grouped_matches == group_functionally_identical_matches(positive_matches)
        best_series == IF series_or_unknown(grouped_matches[1]) # ""
                       THEN series_or_unknown(grouped_matches[1])
                       ELSE extract_series_name(fn)
    IN IF positive_matches = <<>> THEN handle_no_matches(m, fn, asked)
       ELSE handle_no_matches(m, fn, asked \o <<"choose">>)
            \cup {Outcome(m, Null, asked \o <<"choose">>, "skipped")}
            \cup {Outcome(DeclareSkip(m, best_series), Null,
                          asked \o <<"choose">>, "skipped")}
            \cup {Outcome(RememberChoice(m, grouped_matches[idx]),
                          Some(grouped_matches[idx]),
                          asked \o <<"choose">>, "chosen")
                  : idx \in 1..Len(grouped_matches)}

\* handle_low_confidence_match, lines 1104-1149: answers y, n and m
handle_low_confidence_match(m, fn, all_matches, asked) ==
    {Outcome(RememberChoice(m, all_matches[1]), Some(all_matches[1]),
             asked \o <<"confirm">>, "confirmed")}
    \cup (IF Len(all_matches) > 1 /\ all_matches[2].score > 0
          THEN handle_multiple_matches(m, fn, all_matches, asked \o <<"confirm">>)
          ELSE handle_no_matches(m, fn, asked \o <<"confirm">>))
    \cup handle_no_matches(m, fn, asked \o <<"confirm">>)

\* handle_interactive_selection, lines 914-935
handle_interactive_selection(m, fn, all_matches, force, asked) ==
    IF force /\ all_matches # <<>>
    THEN handle_multiple_matches(m, fn, all_matches, asked)
    ELSE IF /\ Len(all_matches) > 1
            /\ all_matches[1].score > 0
            /\ all_matches[1].score - all_matches[2].score < CloseScoreMargin
    THEN handle_multiple_matches(m, fn, all_matches, asked)
    ELSE IF all_matches # <<>> /\ all_matches[1].score < LowConfidenceThreshold
    THEN handle_low_confidence_match(m, fn, all_matches, asked)
    ELSE IF all_matches # <<>> /\ all_matches[1].score > 0
    THEN {Outcome(m, Some(all_matches[1]), asked, "accepted")}
    ELSE handle_no_matches(m, fn, asked)

\* what match_best_pattern has done: an outcome, what became of the stored
\* row, and whether the standard interactive selection was applied
Classified(o, memory, resolve) ==
    [m |-> o.m, result |-> o.result, asked |-> o.asked, via |-> o.via,
     memory |-> memory, resolve |-> resolve]

\* match_best_pattern, lines 640-695
match_best_pattern(m, fn, auto) ==
    IF m.skip # Null /\ <<fn, m.skip[1]>> \in StartsWith
    THEN {Classified(Outcome(m, Null, <<>>, "skiplist"), "none", FALSE)}
    ELSE
    LET potential_series == extract_series_name(fn)
        m0 == IF /\ m.choice # Null
                 /\ potential_series # ""
                 /\ m.choice[1].series_prefix = potential_series
              THEN [m EXCEPT !.choice = Null] ELSE m
    IN UNION {
        IF d.ret = "match"
        THEN {Classified(Outcome(d.m, d.result, d.asked, "db"), d.memory, FALSE)}
        ELSE
        LET force == (d.ret = "FORCE_INTERACTIVE")
            s == IF force THEN [m |-> d.m, result |-> Null]
                 ELSE try_session_stored_patterns(d.m, fn)
            all_matches == score_all_patterns(fn)
        IN IF s.result # Null
           THEN {Classified(Outcome(s.m, s.result, d.asked, "session"),
                            d.memory, FALSE)}
           ELSE IF auto /\ ~force
           THEN {Classified(Outcome(s.m, handle_auto_mode_selection(all_matches),
                                    d.asked, "auto"), d.memory, FALSE)}
           ELSE {Classified(o, d.memory, ~force)
                 : o \in handle_interactive_selection(s.m, fn, all_matches,
                                                      force, d.asked)}
        : d \in try_database_match(m0, fn, auto)}

\* process_individual_files, line 1514: one file is classified
MatchBestPattern(fn) ==
    /\ sessions >= 1
    /\ calls < MaxCalls
    /\ \E o \in match_best_pattern(Memory, fn, auto_mode) :
          /\ series_patterns' = o.m.db
          /\ stored_pattern_choice' = o.m.choice
          /\ stored_manual_pattern' = o.m.manual
          /\ stored_skip_series' = o.m.skip
          /\ stored_format_types' = o.m.fmt
          /\ declared' = o.m.declared
          /\ cls' = [file |-> fn, auto |-> auto_mode, result |-> o.result,
                     asked |-> o.asked, via |-> o.via, memory |-> o.memory,
                     resolve |-> o.resolve]
    /\ calls' = calls + 1
    /\ UNCHANGED <<auto_mode, sessions, procVars, convVars, dispVars,
                   nameVars, scoreVars>>

\* the program ends and is started again (main, lines 3262-3357): the module
\* globals start afresh, the database file stays
NewSession(auto) ==
    /\ sessions >= 1
    /\ sessions < MaxSessions
    /\ sessions' = sessions + 1
    /\ auto_mode' = auto
    /\ stored_pattern_choice' = Null
    /\ stored_manual_pattern' = Null
    /\ stored_skip_series' = Null
    /\ stored_format_types' = <<>>
    /\ declared' = {}
    /\ cls' = NoClassification
    /\ calls' = 0
    /\ UNCHANGED <<series_patterns, procVars, convVars, dispVars,
                   nameVars, scoreVars>>

\* main, lines 3309-3318: the program is run with --clear-patterns, the
\* operator answers y, every row of series_patterns is deleted and the program
\* exits; it is then started again for processing
ClearPatterns(auto) ==
    /\ sessions >= 1
    /\ sessions < MaxSessions
    /\ sessions' = sessions + 1
    /\ series_patterns' = {}
    /\ auto_mode' = auto
    /\ stored_pattern_choice' = Null
    /\ stored_manual_pattern' = Null
    /\ stored_skip_series' = Null
    /\ stored_format_types' = <<>>
    /\ declared' = {}
    /\ cls' = NoClassification
    /\ calls' = 0
    /\ UNCHANGED <<procVars, convVars, dispVars, nameVars, scoreVars>>

InitClassify ==
    /\ InitProc
    /\ ConvOff
    /\ DispOff
    /\ NameOff
    /\ ScoreOff
    /\ series_patterns = {}
    /\ stored_pattern_choice = Null
    /\ stored_manual_pattern = Null
    /\ stored_skip_series = Null
    /\ stored_format_types = <<>>
    /\ auto_mode \in BOOLEAN
    /\ cls = NoClassification
    /\ declared = {}
    /\ calls = 0
    /\ sessions = 1

NextClassify ==
    \/ \E fn \in ClsFiles : MatchBestPattern(fn)
    \/ \E auto \in BOOLEAN : NewSession(auto)
    \/ \E auto \in BOOLEAN : ClearPatterns(auto)

SpecClassify == InitClassify /\ [][NextClassify]_vars

(***************************************************************************)
(* The dispatch of folders: process_directory hands every folder of the    *)
(* download tree to process_bulk_archives or to process_individual_files.  *)
(* A real run (dry_run False) is modelled; what happens to one file after  *)
(* its classification is an input, FileOutcomes.                           *)
(***************************************************************************)
\* os.walk(download_directory): the download directory, then its sub-folder
DownloadFolders == <<"D", "X">>
CbzNames == {"a.cbz", "b.cbz"}
RarNames == {"old.rar"}
\* .cbz files that extract_rars can bring out of the .rar archives of a folder
ExtractedNames == {"e.cbz"}
ProcessModes == {"auto", "standard", "bulk", "nested"}
\* match_best_pattern returned None; process_cbz_file returned True; it
\* returned False or raised
FileOutcomes == {"skipped", "placed", "failed"}

\* [f for f in files if f.endswith('.cbz')]
cbz_files(files) == files \cap (CbzNames \cup ExtractedNames)
\* [f for f in files if f.endswith('.rar')]
rar_files(files) == files \cap RarNames

\* process_directory, lines 1384-1388
folder_process_mode(mode, files) ==
    IF mode = "auto"
    THEN IF rar_files(files) # {} THEN "bulk" ELSE "standard"
    ELSE mode

\* process_directory, lines 1390-1397: the function the folder is handed to
Dispatch(mode, files) ==
    IF folder_process_mode(mode, files) = "bulk" /\ rar_files(files) # {}
    THEN "process_bulk_archives"
    ELSE IF cbz_files(files) # {} THEN "process_individual_files"
    ELSE "none"

\* process_directory, lines 1365-1397: the next folder of the walk is taken
\* and handed on; process_bulk_archives up to its loop (lines 1576-1587,
\* 1667-1679, 1705-1707); process_individual_files up to its loop
ScanFolder ==
    /\ dl_pc = "scan"
    /\ dl_walk # <<>>
    /\ dl_walk' = Tail(dl_walk)
    /\ LET root == Head(dl_walk)
           files == dl_tree[root]
           to == Dispatch(process_mode, files)
       IN IF cbz_files(files) = {} /\ rar_files(files) = {}
          THEN UNCHANGED <<dl_pc, dl_root, dl_todo, dl_success>>
          ELSE IF to = "process_bulk_archives"
          THEN IF ~can_process_rar
               THEN \* return False, []
                    UNCHANGED <<dl_pc, dl_root, dl_todo, dl_success>>
               ELSE \E extracted \in SUBSET ExtractedNames :
                      IF extracted = {}
                      THEN UNCHANGED <<dl_pc, dl_root, dl_todo, dl_success>>
                      ELSE /\ dl_pc' = "bulk"
                           /\ dl_root' = root
                           /\ dl_todo' = extracted
                           /\ dl_success' = TRUE
          ELSE IF to = "process_individual_files"
          THEN /\ dl_pc' = "files"
               /\ dl_root' = root
               /\ dl_todo' = cbz_files(files)
               /\ dl_success' = TRUE
          ELSE \* process_result = False
               UNCHANGED <<dl_pc, dl_root, dl_todo, dl_success>>
    /\ UNCHANGED <<can_process_rar, process_mode, dl_tree, dl_handed, dl_outcome,
                   dl_moved>>
    /\ UNCHANGED <<procVars, convVars, clsVars, nameVars, scoreVars>>

\* body of the loop over the files (lines 1510-1572 and 1680-1704): the file
\* is passed to match_best_pattern and then, unless skipped, to process_cbz_file
HandleFile(f, outcome) ==
    /\ dl_pc \in {"files", "bulk"}
    /\ f \in dl_todo
    /\ dl_todo' = dl_todo \ {f}
    /\ dl_handed' = dl_handed \cup {<<dl_root, f>>}
    /\ dl_outcome' = (<<dl_root, f>> :> outcome) @@ dl_outcome
    /\ dl_success' = IF outcome = "failed" THEN FALSE ELSE dl_success
    /\ UNCHANGED <<can_process_rar, process_mode, dl_tree, dl_pc, dl_walk, dl_root,
                   dl_moved>>
    /\ UNCHANGED <<procVars, convVars, clsVars, nameVars, scoreVars>>

\* the processing function returns `success`; process_directory, lines
\* 1407-1420: the folder is moved to !Finished
FolderDone ==
    /\ dl_pc \in {"files", "bulk"}
    /\ dl_todo = {}
    /\ dl_pc' = "scan"
    /\ dl_moved' = IF dl_root # Head(DownloadFolders) /\ dl_success
                   THEN dl_moved \cup {dl_root} ELSE dl_moved
    /\ UNCHANGED <<can_process_rar, process_mode, dl_tree, dl_walk, dl_root, dl_todo,
                   dl_success, dl_handed, dl_outcome>>
    /\ UNCHANGED <<procVars, convVars, clsVars, nameVars, scoreVars>>

InitDispatch ==
    /\ InitProc
    /\ ConvOff
    /\ ClsOff
    /\ NameOff
    /\ ScoreOff
    /\ can_process_rar \in BOOLEAN
    /\ process_mode \in ProcessModes
    /\ dl_tree \in [{DownloadFolders[i] : i \in DOMAIN DownloadFolders} ->
                      SUBSET (CbzNames \cup RarNames)]
    /\ dl_pc = "scan"
    /\ dl_walk = DownloadFolders
    /\ dl_root = ""
    /\ dl_todo = {}
    /\ dl_success = TRUE
    /\ dl_handed = {}
    /\ dl_outcome = <<>>
    /\ dl_moved = {}

NextDispatch ==
    \/ ScanFolder
    \/ \E f \in CbzNames \cup ExtractedNames, outcome \in FileOutcomes :
          HandleFile(f, outcome)
    \/ FolderDone

SpecDispatch == InitDispatch /\ [][NextDispatch]_vars

(***************************************************************************)
(* The name of a file in the library: move_to_library, lines 2008-2039.    *)
(* The volume and the chapter of a classification are texts of digits, as  *)
(* a pattern captured them or as the operator typed them; they are         *)
(* modelled as sequences of one-character strings.                         *)
(***************************************************************************)
MaxDigits == 2
Digits == {"0", "2"}
\* texts of at most n digits; the empty text stands for None and for ''
DigitTexts(n) == UNION {[1..k -> Digits] : k \in 0..n}
VolumeTexts == DigitTexts(MaxDigits)
ChapterTexts == {<<>>, <<"1">>, <<"0", "1">>, <<"2", "0", "2", "3">>}
NameSeries == {"Another Example", "S"}
\* os.path.basename(source_file): a source file or its converted copy
NameSources == {"Another Example v02.cbz", "Another Example v02_webp.cbz",
                "S c1.cbz", "S v2 (2023).cbz"}

\* f"{volume}": the text as a string
RECURSIVE Text(_)
Text(t) == IF t = <<>> THEN "" ELSE Head(t) \o Text(Tail(t))

DigitValue(c) ==
    CASE c = "0" -> 0 [] c = "1" -> 1 [] c = "2" -> 2 [] c = "3" -> 3

\* int(chapter)
RECURSIVE IntOf(_)
IntOf(t) ==
    IF t = <<>> THEN 0
    ELSE 10 * IntOf(SubSeq(t, 1, Len(t) - 1)) + DigitValue(t[Len(t)])

\* re.search(r'\bv(?:ol)?\.?\s*(\d+)\b', source_filename, re.IGNORECASE):
\* group 1, or the empty text when there is no match
VolumeInName(source_filename) ==
    CASE source_filename = "Another Example v02.cbz" -> <<"0", "2">>
      [] source_filename = "Another Example v02_webp.cbz" -> <<>>
      [] source_filename = "S c1.cbz" -> <<>>
      [] source_filename = "S v2 (2023).cbz" -> <<"2">>

\* re.search(r'\(\d{4}\)', source_filename)
YearInParentheses(source_filename) == source_filename = "S v2 (2023).cbz"

\* os.path.splitext(source_file)[1]
Ext(source_filename) == ".cbz"

\* move_to_library, lines 2011-2037: the file name composed for the library
file_name(source_filename, series_name, volume, chapter, is_oneshot) ==
    LET forced == volume = <<>> /\ VolumeInName(source_filename) # <<>>
        vol == IF forced THEN VolumeInName(source_filename) ELSE volume
        chap == IF /\ forced
                   /\ chapter # <<>>
                   /\ IntOf(chapter) > 1900
                   /\ IntOf(chapter) < 2100
                   /\ YearInParentheses(source_filename)
                THEN <<>> ELSE chapter
    IN series_name
         \o (IF vol # <<>> THEN " v" \o Text(vol) ELSE "")
         \o (IF is_oneshot THEN " - One-shot"
             ELSE IF chap # <<>> THEN " - Chapter " \o Text(chap) ELSE "")
         \o Ext(source_filename)

\* the arguments of a call of move_to_library (process_cbz_file, lines 1949-1968)
NameCalls ==
    [Series : NameSeries, Volume : VolumeTexts, Chapter : ChapterTexts,
     is_oneshot : BOOLEAN]

\* move_to_library composes the name of the file
ComposeName ==
    /\ nm_file_name = Null
    /\ nm_file_name' = Some(file_name(nm_source, nm_match.Series, nm_match.Volume,
                                      nm_match.Chapter, nm_match.is_oneshot))
    /\ UNCHANGED <<nm_source, nm_match>>
    /\ UNCHANGED <<procVars, convVars, clsVars, dispVars, scoreVars>>

\* process_cbz_file calls move_to_library for the next file
NextName(source_filename, md) ==
    /\ nm_file_name # Null
    /\ nm_source' = source_filename
    /\ nm_match' = md
    /\ nm_file_name' = Null
    /\ UNCHANGED <<procVars, convVars, clsVars, dispVars, scoreVars>>

InitName ==
    /\ InitProc
    /\ ConvOff
    /\ ClsOff
    /\ DispOff
    /\ ScoreOff
    /\ nm_source \in NameSources
    /\ nm_match \in NameCalls
    /\ nm_file_name = Null

NextNaming ==
    \/ ComposeName
    \/ \E source_filename \in NameSources, md \in NameCalls :
          NextName(source_filename, md)

SpecName == InitName /\ [][NextNaming]_vars

(***************************************************************************)
(* Properties.                                                             *)
(***************************************************************************)
LibraryFiles(F) == {p \in DOMAIN F.files : IsUnder(p, library_path)}
BaseDest(md) == Join(Join(library_path, md.Series), DestFileName(md))

\* C1: a placement never overwrites an existing library file unless the
\* source name carries the fixed marker: every library file that existed
\* before a call of process_cbz_file is unchanged after it, except the
\* destination of a marked source; and when the destination existed and the
\* source has no marker, the new file is written to a path that did not
\* exist before.
C1_NoOverwriteWithoutMarker ==
    [][last'.called =>
         /\ \A p \in LibraryFiles(fs) :
               \/ (p \in DOMAIN fs'.files /\ fs'.files[p] = fs.files[p])
               \/ (last'.marker /\ p = last'.dest)
         /\ (last'.destExisted /\ ~last'.marker) =>
               /\ ~Exists(fs, last'.dest)
               /\ IsFile(fs', last'.dest)
               /\ fs'.files[last'.dest].src = last'.orig.src]_vars

\* an unmarked file was placed while its destination existed
C1_Witness ==
    /\ last.called /\ last.destExisted /\ ~last.marker
    /\ IsFile(fs, last.dest)
    /\ last.dest # BaseDest(Classify(Basename(last.src)))

\* C2: when a file with the fixed marker is placed onto an existing
\* destination (and the journal is writable), the destination holds the new
\* file, the call reports success and a history row of the current run
\* records the placement.
C2_FixedVersionRecorded ==
    (last.called /\ last.marker /\ last.destExisted /\ last.db = "ok") =>
        /\ IsFile(fs, last.dest)
        /\ fs.files[last.dest].src = last.orig.src
        /\ last.result
        /\ \E i \in RowIds(history, run_id) :
              /\ history[i].source_path = last.src
              /\ history[i].dest_path = last.dest

\* C3: at every point of a run in which no journal write failed, the run has
\* as many history rows as it has placed files, and every file reported as
\* processed has its row.
C3_JournaledBeforeProcessed ==
    (pc # "idle" /\ dbFailures = 0) =>
        /\ Cardinality(RowIds(history, run_id)) = Len(placed)
        /\ \A f \in reported :
              \E i \in RowIds(history, run_id) : history[i].source_path = f

\* C4: the history is append-only: no step removes a row or changes a column
\* of an existing row other than undone_at, and undone_at is only ever set.
C4_HistoryAppendOnly ==
    [][/\ Len(history') >= Len(history)
       /\ \A i \in 1..Len(history) :
             /\ [history'[i] EXCEPT !.undone_at = Null]
                   = [history[i] EXCEPT !.undone_at = Null]
             /\ history[i].undone_at # Null => history'[i].undone_at # Null]_vars

\* an undo has just marked a row of a journal that holds several rows
C4_Witness ==
    /\ undone # 0
    /\ Len(history) >= 2
    /\ \E i \in RowIds(history, undone) : history[i].undone_at = Some(undos)

InRecoveryFolder(F, r, filename) ==
    \E p \in DOMAIN F.files :
       /\ Len(p) >= 2
       /\ Basename(p) = filename
       /\ p[Len(p) - 1] = RecoveredDirName(r)

\* C5: the first confirmed undo of a run marks every history row of the run
\* as undone and leaves every source file of the run at its source path or
\* in the recovery folder of the run.
C5_UndoRestoresAll ==
    [][(undone' # 0 /\ \A i \in RowIds(history, undone') : history[i].undone_at = Null) =>
          \A i \in RowIds(history', undone') :
             /\ history'[i].undone_at # Null
             /\ \/ IsFile(fs', history'[i].source_path)
                \/ InRecoveryFolder(fs', undone', Basename(history'[i].source_path))]_vars

\* C6: an undo of a run all of whose rows are marked undone changes neither
\* the file system nor the history.
C6_SecondUndoNoOp ==
    [][(undone' # 0 /\ \A i \in RowIds(history, undone') : history[i].undone_at # Null) =>
          (fs' = fs /\ history' = history)]_vars

\* C7: an undo of run R leaves every row of R that is already marked undone
\* as it is and does not delete the file at its destination path (unless a
\* row of R that is not yet undone names the same path).
C7_UndoneRowsNotActedOn ==
    [][undone' # 0 =>
          \A i \in RowIds(history, undone') :
             history[i].undone_at # Null =>
                /\ history'[i] = history[i]
                /\ (/\ IsFile(fs, history[i].dest_path)
                    /\ \A j \in RowIds(history, undone') :
                          history[j].dest_path = history[i].dest_path
                             => history[j].undone_at # Null)
                      => IsFile(fs', history[i].dest_path)]_vars

\* C8: convert_to_webp returns a new archive only if it has as many entries
\* as the source archive; otherwise the conversion is rejected and the file
\* to move is the original; a new archive with another count is never chosen.
C8_EntryCountPreservedOrRejected ==
    /\ (cv_pc \in {"verified", "done"} /\ cv_result.ok)
          => Len(newzip) = Cardinality(archive)
    /\ cv_pc = "done" =>
          /\ file_to_move = "converted"
                => (cv_result.ok /\ Len(newzip) = Cardinality(archive))
          /\ ~cv_result.ok => file_to_move = "original"

\* a converted archive with the entry count of a source of several entries
\* was chosen
C8_Witness ==
    /\ cv_pc = "done" /\ file_to_move = "converted"
    /\ Cardinality(archive) >= 2
    /\ Len(newzip) = Cardinality(archive)

\* C9: a failed conversion is not fatal: once repacking is over, the new
\* archive holds the original bytes of every failed image under its original
\* name, it holds an entry for every extracted file, and it is rejected only
\* by the checks on the entry count and the minimum size.
C9_FailedImageKeepsOriginal ==
    (cv_pc \in {"verified", "done"} /\ failed # {}) =>
        /\ \A img \in failed :
              \E k \in 1..Len(newzip) :
                 /\ newzip[k].name = img
                 /\ newzip[k].content = OriginalBytes(img)
        /\ Len(newzip) = Cardinality({n \in archive : ~IsDirEntry(n)})
        /\ ~cv_result.ok =>
              \/ Len(newzip) # Cardinality(archive)
              \/ ZipSize(newzip) < MinArchiveSize

\* an archive with a failed and a converted image was produced
C9_Witness ==
    /\ cv_pc = "done" /\ cv_result.ok
    /\ failed # {}
    /\ \E k \in 1..Len(newzip) : newzip[k].content.fmt = "webp"

\* C10: the file placed is the converted archive exactly when the conversion
\* returned an archive whose size is at most 2% above the original size;
\* otherwise the original bytes are placed; a file is placed in both cases.
C10_ConvertedIffWithinTolerance ==
    last.called =>
        /\ IsFile(fs, last.dest)
        /\ LET c == fs.files[last.dest]
               within == last.conv.ok /\ 100 * last.conv.size <= 102 * last.original_size
           IN /\ c.webp <=> within
              /\ c.webp => (c.size = last.conv.size /\ c.src = last.orig.src)
              /\ ~c.webp => c = last.orig

\* a converted archive larger than the original, within the tolerance, was placed
C10_Witness ==
    /\ last.called
    /\ IsFile(fs, last.dest)
    /\ fs.files[last.dest].webp
    /\ fs.files[last.dest].size > last.original_size

(***************************************************************************)
(* Properties of the classifier (specification SpecClassify).              *)
(***************************************************************************)
\* the last call of match_best_pattern ended Accepted or Skipped
Accepted == cls.file # "" /\ cls.result # Null
Skipped == cls.file # "" /\ cls.result = Null

\* C11: in automatic mode match_best_pattern never reads operator input,
\* whatever the pattern memory, the session state and the fingerprints hold
\* (a stored pattern that no longer matches, a series-name mismatch, a format
\* drift): the call ends Accepted or Skipped with no prompt asked.
C11_AutoNeverPrompts ==
    (cls.file # "" /\ cls.auto) => (cls.asked = <<>> /\ (Accepted \/ Skipped))

\* an automatic classification whose stored pattern was rejected or whose
\* format had drifted
C11_Witness ==
    /\ cls.file # ""
    /\ cls.auto
    /\ cls.memory \in {"rejected", "drift"}

\* the prompts of the interactive selection: those asked after the drift
\* question of try_database_match
SelectionPrompts ==
    IF cls.asked # <<>> /\ cls.asked[1] = "drift" THEN Tail(cls.asked)
    ELSE cls.asked

\* the top two scores are both positive and less than d tenths apart
TopTwoWithin(all_matches, d) ==
    /\ Len(all_matches) > 1
    /\ all_matches[1].score > 0
    /\ all_matches[2].score > 0
    /\ all_matches[1].score - all_matches[2].score < d

\* C12: the interactive selection follows the three-way policy on the sorted
\* score list: top two scores both positive and within 4 points -> the operator
\* disambiguates; otherwise top score below 5 -> the operator confirms or
\* overrides; otherwise the top match is accepted with no prompt.  (A
\* difference of exactly 4 points is left open, so that the statement does
\* not depend on whether "within 4" includes 4.)
C12_ThreeWayPolicy ==
    LET all_matches == score_all_patterns(cls.file)
    IN (cls.file # "" /\ cls.resolve /\ all_matches # <<>>) =>
        /\ TopTwoWithin(all_matches, CloseScoreMargin) =>
               (SelectionPrompts # <<>> /\ SelectionPrompts[1] = "choose")
        /\ (/\ ~TopTwoWithin(all_matches, CloseScoreMargin + 1)
            /\ all_matches[1].score < LowConfidenceThreshold) =>
               (SelectionPrompts # <<>> /\ SelectionPrompts[1] = "confirm")
        /\ (/\ ~TopTwoWithin(all_matches, CloseScoreMargin + 1)
            /\ all_matches[1].score >= LowConfidenceThreshold) =>
               (SelectionPrompts = <<>> /\ cls.result = Some(all_matches[1]))

\* the last call returned the extraction of a pattern (not a manual entry)
RuleExtraction == Accepted /\ cls.result[1].pattern # "Manual Entry"

\* C13: an extraction whose score for the current file name is not positive
\* is never the result of an Accepted classification, on any path of the
\* classifier (memory reuse, session reuse, automatic selection, close-score
\* choice, low-confidence confirmation).
C13_AcceptedScorePositive ==
    RuleExtraction => cls.result[1].score > 0

\* this step is a call of match_best_pattern for fn
ClassifyStep(fn) == calls' = calls + 1 /\ cls'.file = fn

\* series_patterns holds a row for the series
HasRecord(db, series) == \E r \in db : r.series_name = series

\* C14: a choice of the operator (in the menu, at the low-confidence
\* confirmation, or a manual entry) for series S is stored as the row of S in
\* series_patterns, and every later file of series S is classified by
\* reusing that row without a prompt.  (Files whose format fingerprint
\* drifted are left out: the statement fails without them.)
C14_ChoicePersistedAndReused ==
    [][\A fn \in ClsFiles : ClassifyStep(fn) =>
         /\ (cls'.via \in {"chosen", "confirmed", "manual"}) =>
               \E r \in series_patterns' :
                   /\ r.series_name = cls'.result[1].series
                   /\ r.pattern_name = cls'.result[1].pattern
         /\ (/\ HasRecord(series_patterns, extract_series_name(fn))
             /\ cls'.via # "skiplist"
             /\ cls'.memory # "drift") =>
               (cls'.asked = <<>> /\ cls'.via = "db")]_vars

\* the fingerprint recorded for the series is the fingerprint of fn
FingerprintMatches(fmt, series, fn) ==
    series \in DOMAIN fmt /\ fmt[series] = Fingerprint(fn)

\* C15: memory consistency.  Once series_patterns has a row for series S, a
\* later file name whose derived series is S and whose format fingerprint is
\* the recorded one is classified from that row (the result is what the
\* remembered pattern yields) and without a prompt, in both modes.
C15_MemoryConsistency ==
    [][\A fn \in ClsFiles :
         (/\ ClassifyStep(fn)
          /\ HasRecord(series_patterns, extract_series_name(fn))
          /\ FingerprintMatches(stored_format_types, extract_series_name(fn), fn)
          /\ cls'.via # "skiplist") =>
             (cls'.asked = <<>> /\ cls'.via = "db")]_vars

\* numbering of a file name, by the fingerprint of detect_format_change
ChapterOnly(fn) == ~has_volume(fn) /\ has_chapter(fn)
VolumeAndChapter(fn) == has_volume(fn) /\ has_chapter(fn)

\* C16: drift detection.  When a file with chapter-only numbering and then a
\* file of the same series with volume+chapter numbering are classified in
\* one run, the second one gets the drift handling (classified afresh in
\* automatic mode, the drift question in interactive mode) and the remembered
\* row is not reused blindly, whether or not the row existed when the first
\* file was classified.
C16_DriftHandled ==
    [][\A fn \in ClsFiles :
         (/\ ClassifyStep(fn)
          /\ cls.file # ""
          /\ cls.via # "skiplist"
          /\ cls'.via # "skiplist"
          /\ extract_series_name(cls.file) = extract_series_name(fn)
          /\ ChapterOnly(cls.file)
          /\ VolumeAndChapter(fn)
          /\ HasRecord(series_patterns, extract_series_name(fn))) =>
             /\ cls'.memory = "drift"
             /\ cls'.auto \/ (cls'.asked # <<>> /\ cls'.asked[1] = "drift")]_vars

\* C17: a file name ends Skipped at the skip-list check if and only if its
\* inferred series is one the operator declared "skip all" earlier in the
\* session: every declared series stays in force for the rest of the session
\* (also after another series is declared), and a file of a series that was
\* never declared is not skipped by this check.
C17_SkipListExact ==
    [][\A fn \in ClsFiles : ClassifyStep(fn) =>
         ((cls'.via = "skiplist") <=> (extract_series_name(fn) \in declared))]_vars

\* ---------------------------------------------------------------------
\* Properties of the folder finalisation.

\* process_directory, lines 1399-1420: the step that ends a folder moves it
\* out of the download tree
FolderMoved == pc = "files" /\ pc' = "walk" /\ IsDir(fs, cur) /\ ~IsDir(fs', cur)

\* C18: a source folder is moved to the finished holding area only if every
\* archive found in it was successfully placed in the library during the run;
\* a folder holding a skipped or failed archive stays where it is.
C18_FolderMovedOnlyIfFullyProcessed ==
    [][FolderMoved => ListFiles(fs, cur) \subseteq processed]_vars

\* ---------------------------------------------------------------------
\* Properties of the dispatch of folders.

\* the walk over the download tree is over
DispatchDone == dl_pc = "scan" /\ dl_walk = <<>>

\* C19: when the external extractor is unavailable, every .cbz of every
\* traversed folder, also of a folder that holds .rar archives, has been
\* handed to the classifier and has an outcome reported for it when the
\* run is over.
C19_CbzHandledWithoutExtractor ==
    (~can_process_rar /\ DispatchDone) =>
        \A d \in DOMAIN dl_tree : \A f \in cbz_files(dl_tree[d]) :
            /\ <<d, f>> \in dl_handed
            /\ <<d, f>> \in DOMAIN dl_outcome

\* ---------------------------------------------------------------------
\* Properties of the library file name.

\* the text without its leading zeros ("02" -> "2", "00" -> "0")
RECURSIVE StripLeadingZeros(_)
StripLeadingZeros(t) ==
    IF Len(t) > 1 /\ Head(t) = "0" THEN StripLeadingZeros(Tail(t)) ELSE t

\* C20: a classification with a volume and no chapter is placed under the
\* name "<series> v<volume><ext>" where the volume is written without its
\* leading zeros (Series "Another Example", Volume "02" gives
\* "Another Example v2.cbz").
C20_VolumeWithoutLeadingZeros ==
    (/\ nm_file_name # Null
     /\ nm_match.Volume # <<>>
     /\ nm_match.Chapter = <<>>
     /\ ~nm_match.is_oneshot)
    => nm_file_name[1] = nm_match.Series \o " v"
                           \o Text(StripLeadingZeros(nm_match.Volume))
                           \o Ext(nm_source)

\* ---------------------------------------------------------------------
\* Properties of a dry run.

\* C21: a dry run changes no file and no folder of the source directory, of
\* the work directory or of the library, and writes no journal row: every
\* step that begins, continues or ends a dry run leaves the file system and
\* the history as they are.
C21_DryRunChangesNothing ==
    [][(pc \in DryPositions \/ pc' \in DryPositions)
         => (fs' = fs /\ history' = history)]_vars

\* a dry run has gone through all files of a sub-folder, with success, while
\* the library holds files of an earlier run
C21_Witness ==
    /\ pc = "dry_files"
    /\ todo = {}
    /\ cur # download_directory
    /\ success
    /\ processed # {}
    /\ \E q \in DOMAIN fs.files : IsUnder(q, library_path)

\* ---------------------------------------------------------------------
\* Properties of the handling of persistent-store failures.

\* C22: a failure of the persistent store never fails the current file: a
\* file that is placed while the write of its journal row fails is still
\* reported as processed.
C22_StoreFailureKeepsFile ==
    [][(pc = "files" /\ last'.called /\ last'.wrote /\ last'.db # "ok")
         => (last'.result /\ Basename(last'.src) \in processed')]_vars

\* ---------------------------------------------------------------------
\* Properties of the placement of a file whose destination exists.

\* os.path.join(download_directory, "!Conflicts") (line 2054)
conflicts_path == Join(download_directory, "!Conflicts")

\* C23: when the destination already exists and the source carries no
\* fixed marker, the file is placed in the conflicts area and not inside
\* the library.
C23_ConflictGoesToConflictsArea ==
    [][(pc = "files" /\ last'.called /\ last'.wrote /\ last'.destExisted
          /\ ~last'.marker)
         => (IsUnder(last'.dest, conflicts_path)
               /\ ~IsUnder(last'.dest, library_path))]_vars

\* ---------------------------------------------------------------------
\* Properties of the directory traversal.

\* the reserved directories: the finished holding area, the conflicts area,
\* the temporary areas and the recovery folders of undo
ReservedNames ==
    {"!Finished", "!Conflicts", "!temp_processing", "!temp_extract"}
      \cup {RecoveredDirName(r) : r \in 1..MaxRuns}
IsReserved(p) == \E i \in 1..Len(p) : p[i] \in ReservedNames

\* C24: the traversal never hands a file that lies inside a reserved
\* directory to the classifier, in a first run or in a later one: the folder
\* whose files are being processed is never inside a reserved directory.
C24_ReservedNeverTraversed ==
    pc = "files" => ~IsReserved(cur)

\* C28: the destination name is composed from the classification alone: the
\* name composed for a call is the name that the same series, volume,
\* chapter, one-shot flag and extension give under every other source name.
C28_NameFromClassificationAlone ==
    nm_file_name # Null =>
        \A other \in NameSources :
            Ext(other) = Ext(nm_source) =>
                nm_file_name[1] = file_name(other, nm_match.Series, nm_match.Volume,
                                            nm_match.Chapter, nm_match.is_oneshot)

\* C26: after a format drift is detected for a remembered series and the reuse
\* is not confirmed (automatic mode, or the operator answers no), the result
\* of the file comes from scoring all patterns and the selection that
\* follows, never from a remembered pattern: not the row of series_patterns,
\* not the pattern or the manual entry stored for the session.
C26_NoMemoryAfterUnconfirmedDrift ==
    [][\A fn \in ClsFiles : (ClassifyStep(fn) /\ cls'.memory = "drift") =>
         cls'.via \notin {"db", "session"}]_vars


\* the stored rows try_database_match may have read for fn whose pattern,
\* re-applied to fn, parses the remembered series name
GuardPasses(db, fn) ==
    \E r \in get_stored_pattern(db, fn) :
        /\ ~r.is_manual
        /\ ReApply(r.pattern_name, fn) # <<>>
        /\ ReApply(r.pattern_name, fn)[1].series = r.series_name

\* C27: anti-drift guard.  A remembered non-manual pattern is reused for a
\* file name only if re-applying it to that name parses a series name equal
\* to the remembered one; when the re-applied pattern does not match, or
\* parses another series name or none, the classifier scores all patterns
\* instead of answering from memory.
C27_AntiDriftGuard ==
    [][\A fn \in ClsFiles : ClassifyStep(fn) =>
         /\ (cls'.via = "db" /\ cls'.result[1].pattern # "Manual Entry") =>
                GuardPasses(series_patterns, fn)
         /\ cls'.memory = "rejected" => cls'.via \notin {"db", "session"}]_vars


\* the deciding steps of a classification that ends Accepted with confidence
\* or as a manual override: the automatic selection, the acceptance of a high
\* unambiguous score without a prompt, the choice in the menu, the confirmation
\* of a low-confidence match, and the manual entry
ConfidentSteps == {"auto", "accepted", "chosen", "confirmed", "manual"}

\* C32: series_patterns holds a row for series S after the first
\* classification of a file of S that ends Accepted with confidence or as a
\* manual override, a match accepted automatically without a prompt included
\* (automatic mode, or interactive mode with a high, unambiguous score); a row
\* is never deleted except by the clear-patterns action.
C32_RecordCreatedAndKept ==
    [][/\ \A fn \in ClsFiles :
            (/\ ClassifyStep(fn)
             /\ cls'.result # Null
             /\ cls'.via \in ConfidentSteps
             /\ cls'.result[1].series # "") =>
                HasRecord(series_patterns', cls'.result[1].series)
       /\ (~\E auto \in BOOLEAN : ClearPatterns(auto)) =>
            \A r \in series_patterns : HasRecord(series_patterns', r.series_name)]_vars

\* two extractions agree on name, chapter and volume ("" is none)
Agree(x, y) == x.series = y.series /\ x.chapter = y.chapter /\ x.volume = y.volume

\* the operator was shown the menu of the groups of the last file
MenuShown == cls.file # "" /\ \E i \in DOMAIN cls.asked : cls.asked[i] = "choose"

\* C35: the grouping for the menu is a partition of the extractions with a
\* positive score by (series, chapter, volume): extractions that agree on
\* name, chapter and volume (both having no chapter, or no volume, included)
\* are in the same group, no two groups have the same key, the representative
\* of a group is its extraction with the highest score, and the groups are
\* listed by descending best score.
C35_GroupingIsPartition ==
    MenuShown =>
        LET all_matches == score_all_patterns(cls.file)
            positive_matches == SelectSeq(all_matches, LAMBDA x : x.score > 0)
            grouped_matches == group_functionally_identical_matches(all_matches)
            n == Len(grouped_matches)
        IN /\ \A i \in 1..Len(positive_matches) :
                  \E k \in 1..n : Agree(positive_matches[i], grouped_matches[k])
           /\ \A j, k \in 1..n :
                  Agree(grouped_matches[j], grouped_matches[k]) => j = k
           /\ \A k \in 1..n : \A i \in 1..Len(positive_matches) :
                  Agree(positive_matches[i], grouped_matches[k]) =>
                      positive_matches[i].score <= grouped_matches[k].score
           /\ \A j, k \in 1..n :
                  j < k => grouped_matches[j].score >= grouped_matches[k].score

\* ---------------------------------------------------------------------
\* Properties of a classification without a series.

\* this step is the loop body of process_individual_files for an extraction
\* that has neither Series nor Title
ProcessWithoutSeries ==
    \E name \in FileNames, conv \in ConvResults, db \in DbOutcomes :
        ProcessFile(name, Some(NoSeries(name)), conv, db)

\* C37: a classification result whose Series/Title is missing or empty places
\* no archive in the library and writes no history row: the step that handles
\* such a result leaves the library and the journal unchanged.
C37_NoSeriesNothingPlaced ==
    [][ProcessWithoutSeries =>
          /\ history' = history
          /\ LibraryFiles(fs') = LibraryFiles(fs)
          /\ \A p \in LibraryFiles(fs) : fs'.files[p] = fs.files[p]]_vars

\* a file whose extraction has no series was handled while the library held a
\* file and the journal a row
C37_Witness ==
    /\ pc = "files"
    /\ last.series_missing
    /\ history # <<>>
    /\ LibraryFiles(fs) # {}

\* ---------------------------------------------------------------------
\* Properties of the source archive.

\* the archives that wait in the download area, outside the finished area
SourceArchives(F) ==
    {p \in DOMAIN F.files :
        IsUnder(p, download_directory) /\ ~IsUnder(p, finished_dir)}

\* the archive at p is after the step where it was, or it has been moved,
\* unchanged, into the finished area
KeptOrFinished(p) ==
    \/ IsFile(fs', p) /\ fs'.files[p] = fs.files[p]
    \/ /\ ~IsFile(fs', p)
       /\ \E q \in DOMAIN fs'.files :
             /\ IsUnder(q, finished_dir)
             /\ q \notin DOMAIN fs.files \/ fs.files[q] # fs'.files[q]
             /\ fs'.files[q] = fs.files[p]

\* C36: processing never loses the source archive.  For every outcome of the
\* conversion and of the placement, the source archive is unmodified at its
\* path when process_cbz_file returns; a step of a run takes a source archive
\* from its path only to move it, unchanged, into the finished area.
C36_SourceArchiveKept ==
    [][/\ \A name \in FileNames, conv \in ConvResults, db \in DbOutcomes :
            ProcessFile(name, Some(Classify(name)), conv, db) =>
                LET filepath == Join(cur, name)
                    r == process_cbz_file(fs, history, filepath, Classify(name),
                                          conv, db, run_id)
                IN /\ IsFile(r.fs, filepath)
                   /\ r.fs.files[filepath] = fs.files[filepath]
       /\ (downloads' = downloads /\ undos' = undos) =>
            \A p \in SourceArchives(fs) : KeptOrFinished(p)]_vars

\* an archive was placed under a new name because its destination existed, and
\* the source archive has been moved, unchanged, into the finished area
C36_Witness ==
    /\ last.called
    /\ last.destExisted /\ last.wrote /\ ~last.marker
    /\ ~IsFile(fs, last.src)
    /\ IsFile(fs, Join(finished_dir, Basename(last.src)))
    /\ fs.files[Join(finished_dir, Basename(last.src))] = last.orig

\* ---------------------------------------------------------------------
\* Properties of the sizes in the journal.

\* both sizes of the row are known and non-zero
BothSizes(row) ==
    row.original_size # 0 /\ row.final_size # Null /\ row.final_size # Some(0)

\* C40: every row of processing_history with two non-zero sizes has
\* space_saved = original_size - final_size, and its final size is at most
\* 2% above its original size, whether the converted or the original archive
\* was placed and whether or not the destination existed already.
C40_RowSizes ==
    \A i \in DOMAIN history :
        BothSizes(history[i]) =>
            /\ history[i].space_saved
                 = Some(history[i].original_size - history[i].final_size[1])
            /\ 100 * history[i].final_size[1] <= 102 * history[i].original_size

\* a converted archive slightly larger than its original was placed under a
\* new name because the destination existed, and its row was written
C40_Witness ==
    /\ last.called /\ last.row /\ last.converted /\ last.destExisted
    /\ last.conv.size > last.original_size
    /\ \E i \in DOMAIN history :
          /\ history[i].dest_path = last.dest
          /\ history[i].source_path = last.src
          /\ BothSizes(history[i])
          /\ history[i].final_size = Some(last.conv.size)
          /\ history[i].space_saved = Some(last.original_size - last.conv.size)

\* ---------------------------------------------------------------------
\* Properties of the order of restoration in an undo.

\* where the undo of run r looks for the folder of source_dir
FinishedFolder(source_dir) ==
    Join(Join(Dirname(source_dir), "!Finished"), Basename(source_dir))
\* where the undo of run r moves that folder to (lines 2778-2787)
RestoreTarget(F, source_dir, r) ==
    LET target == IF Exists(F, source_dir)
                  THEN Join(Dirname(source_dir),
                            Basename(source_dir) \o "_recovered_" \o ToString(r))
                  ELSE source_dir
    IN MoveDirTarget(F, FinishedFolder(source_dir), target)
\* the source folders of run r that can be moved back from the finished area
Restorable(F, H, r) ==
    {d \in SourceDirs(H, r) :
        /\ Len(d) > 0
        /\ IsDir(F, FinishedFolder(d))
        /\ ~Exists(F, RestoreTarget(F, d, r))}

\* C34: in an undo the folders are restored before the files.  Every source
\* folder of the run that can be moved back from the finished area is moved
\* back as a whole, before a file is looked up there: each file it held is
\* afterwards at the same place inside the restored folder, with the same
\* content, and not in the finished area or in the recovery folder.
C34_FoldersBeforeFiles ==
    [][\A r \in 1..MaxRuns :
          UndoProcessingRun(r) =>
            \A d \in Restorable(fs, history, r) :
                \A p \in DOMAIN fs.files :
                    IsUnder(p, FinishedFolder(d)) =>
                        LET q == Rebase(p, FinishedFolder(d), RestoreTarget(fs, d, r))
                        IN /\ ~IsFile(fs', p)
                           /\ IsFile(fs', q)
                           /\ fs'.files[q] = fs.files[p]
                           /\ \A main \in MainDownloadDirs(history, r) :
                                 ~IsFile(fs', Join(Join(main, RecoveredDirName(r)),
                                                   Basename(p)))]_vars

\* an undo has put a folder back next to its source folder, which existed
\* again, and the file of the folder was not restored individually after that
C34_Witness ==
    /\ undone # 0
    /\ \E i \in RowIds(history, undone) :
          LET d == Dirname(history[i].source_path)
              filename == Basename(history[i].source_path)
              alt == Join(Dirname(d), Basename(d) \o "_recovered_" \o ToString(undone))
          IN /\ d # download_directory
             /\ IsDir(fs, d)
             /\ IsFile(fs, Join(alt, filename))
             /\ ~IsFile(fs, Join(d, filename))
             /\ ~IsDir(fs, FinishedFolder(d))
             /\ history[i].undone_at # Null

\* ---------------------------------------------------------------------
\* Properties of the entries of the repacked archive.

\* the files extracted from the archive
ExtractedFiles == {n \in archive : ~IsDirEntry(n)}
\* the entry the new archive is to hold for the extracted file n
ExpectedEntry(n) ==
    IF IsImageToConvert(n) /\ n \notin failed
    THEN [name |-> WebpPath(n), content |-> ConvertedBytes(n)]
    ELSE [name |-> n, content |-> OriginalBytes(n)]
\* the file a worker, or the repacking thread, writes or reads for n
TargetOf(n) == IF IsImageToConvert(n) THEN WebpPath(n) ELSE n
Repacked == cv_pc \in {"verified", "done"} /\ ExtractedFiles # {}

\* C33: the conversions of one archive are independent of each other and of
\* the order in which the workers finish: the repacked archive holds the
\* same set of entries, with the same contents, whatever that order was, and
\* no file is the target of two workers, or of a worker and of the thread
\* that repacks.
C33_OrderInsensitive ==
    /\ Repacked =>
          {newzip[k] : k \in 1..Len(newzip)} = {ExpectedEntry(n) : n \in ExtractedFiles}
    /\ cv_pc = "pool" =>
          \A n \in running : \A m \in ExtractedFiles :
              m # n => TargetOf(m) # TargetOf(n)

\* C38: the entry names of a repacked archive that is returned are distinct,
\* and every entry of the original archive has exactly one entry in the new
\* one, the page itself or its conversion, also when two entries share a
\* stem: the equal entry counts hide no dropped and no duplicated page.
C38_EntriesOneToOne ==
    (cv_pc \in {"verified", "done"} /\ cv_result.ok) =>
        /\ \A j, k \in 1..Len(newzip) : j # k => newzip[j].name # newzip[k].name
        /\ \A n \in archive :
              Cardinality({k \in 1..Len(newzip) : newzip[k].content.of = n}) = 1

\* ---------------------------------------------------------------------
\* Properties of the scorer (specification SpecScore).

\* C25: score_match is a deterministic pure function: two calls with equal
\* match_dict (the keys the caller added included) and equal file name return
\* the same score, and so the same
\* usable (score > 0) or unusable decision, whenever the calls are made and
\* whatever was scored before.
C25_ScoreDeterministic ==
    (/\ sc_prev # Null
     /\ sc_last # Null
     /\ sc_prev[1].match_dict = sc_last[1].match_dict
     /\ PrivateKeys(sc_prev[1].site) = PrivateKeys(sc_last[1].site)
     /\ sc_prev[1].filename = sc_last[1].filename) =>
        /\ sc_prev[1].score = sc_last[1].score
        /\ (sc_prev[1].score > 0) <=> (sc_last[1].score > 0)

\* the Series or Title value ends in a bare separator ('-', ':', or a '.' that
\* is not part of an abbreviation), ends in a chapter indicator, or is only a
\* volume indicator
FailsStructuralValidation(match_dict) ==
    /\ match_dict.key # ""
    /\ \/ Test("trailing_dash", match_dict)
       \/ Test("trailing_separator", match_dict)
             /\ ~is_likely_abbreviation(match_dict)
       \/ Test("chapter_indicator_end", match_dict)
       \/ Test("volume_indicator_only", match_dict)

\* C29: score_match returns 0 for every match_dict that fails the structural
\* validation, whatever the length of the Series or Title value and whatever
\* other fields are present.
C29_InvalidScoresZero ==
    (sc_last # Null /\ FailsStructuralValidation(sc_last[1].match_dict)) =>
        sc_last[1].score = 0

\* a disqualifying condition holds: a check of check_field_pollution fires
\* (the volume data in the chapter field included), the series is only a
\* volume indicator, or the series has invalid trailing punctuation
Disqualified(match_dict) ==
    \/ check_field_pollution(match_dict).score_adjustment # 0
    \/ Test("volume_only_series", match_dict)
    \/ /\ match_dict.key # ""
       /\ Test("trailing_separator", match_dict)
       /\ ~is_likely_abbreviation(match_dict)

\* C30: any single disqualifying condition suppresses both bonuses: the score
\* of such a match_dict contains neither the essential components bonus (+5)
\* nor the coverage bonus (+3).
C30_DisqualifiedGetsNoBonus ==
    (/\ sc_last # Null
     /\ validate_match(sc_last[1].match_dict)
     /\ Disqualified(sc_last[1].match_dict)) =>
        /\ ~essential_components_bonus(sc_last[1].match_dict, sc_last[1].today)
        /\ ~coverage_bonus(sc_last[1].match_dict, sc_last[1].filename,
                           sc_last[1].today, sc_last[1].site)

\* the score of the last call contains the coverage bonus (+3)
CoverageBonusGiven ==
    /\ sc_last # Null
    /\ validate_match(sc_last[1].match_dict)
    /\ coverage_bonus(sc_last[1].match_dict, sc_last[1].filename,
                      sc_last[1].today, sc_last[1].site)

\* C31: the coverage bonus is added only if the joined values of the extracted
\* fields (Series or Title, Volume, Chapter, Year, Extra, Source, Part) are
\* longer than 60% of the file name and no pollution penalty fired; an
\* extraction whose field values cover 60% or less never receives it.
C31_CoverageBonusNeedsCoverage ==
    CoverageBonusGiven =>
        /\ 10 * sc_last[1].match_dict.parts > 6 * Length(sc_last[1].filename)
        /\ ~check_field_pollution(sc_last[1].match_dict).has_significant_penalty

\* C39: one rule's extraction of one file name gets the same score at every
\* call site: the keys the caller attaches (rule name, original file name)
\* contribute nothing, so two calls on the same day with the same groups and
\* file name return the same score and the same usable (score > 0) decision,
\* whoever the callers are.
C39_SameScoreAtEveryCallSite ==
    (/\ sc_prev # Null
     /\ sc_last # Null
     /\ sc_prev[1].match_dict = sc_last[1].match_dict
     /\ sc_prev[1].filename = sc_last[1].filename
     /\ sc_prev[1].today = sc_last[1].today) =>
        /\ sc_prev[1].score = sc_last[1].score
        /\ (sc_prev[1].score > 0) <=> (sc_last[1].score > 0)

====
